---- MODULE Spec2Model ----
(***************************************************************************)
(* Model of the patch-application engine of the portfolio API              *)
(* (src/api/v1/portfolio.py, src/services/portfolio_normalization.py,      *)
(* src/services/portfolio_service.py).                                     *)
(*                                                                         *)
(* Paths and string values are TLA+ strings and are scanned character by   *)
(* character, as the Python code scans them.  JSON values are records      *)
(* [t, s, n, d, l]: t is the Python type, s the payload of a str (and of a *)
(* bool, "true"/"false"), n the payload of an int, d the map of a dict and *)
(* l the elements of a list.                                               *)
(*                                                                         *)
(* A local variable of the code is a name bound once to its value:         *)
(* only({e : x \in {v}}) is e with x standing for the value of v.          *)
(***************************************************************************)
EXTENDS Integers, Sequences, FiniteSets, TLC

\* the element of a one-element set
only(S) == CHOOSE x \in S : TRUE

(***************************************************************************)
(* Python string primitives                                                *)
(***************************************************************************)
Char(s, i) == SubSeq(s, i, i)

SetMin(S) == CHOOSE x \in S : \A y \in S : x <= y

SetMax(S) == CHOOSE x \in S : \A y \in S : x >= y

startswith(s, p) == Len(s) >= Len(p) /\ SubSeq(s, 1, Len(p)) = p

endswith(s, p) == Len(s) >= Len(p) /\ SubSeq(s, Len(s) - Len(p) + 1, Len(s)) = p

\* the 1-based positions of the occurrences of sub in s
occurrences(s, sub) ==
    {p \in 1..(Len(s) - Len(sub) + 1) : SubSeq(s, p, p + Len(sub) - 1) = sub}

\* str.find(sub, start): 1-based position of the first occurrence at or
\* after from, 0 when there is none (Python's -1).
find(s, sub, from) ==
    only({IF ps = {} THEN 0 ELSE SetMin(ps) : ps \in {{p \in occurrences(s, sub) : p >= from}}})

\* str.rfind(sub)
rfind(s, sub) ==
    only({IF ps = {} THEN 0 ELSE SetMax(ps) : ps \in {occurrences(s, sub)}})

\* sub in s
contains(s, sub) == occurrences(s, sub) # {}

RECURSIVE replace(_, _, _)
\* str.replace(old, new): every non-overlapping occurrence, left to right
replace(s, old, new) ==
    only({only({IF p = 0 THEN str
                ELSE SubSeq(str, 1, p - 1) \o new
                         \o replace(SubSeq(str, p + Len(old), Len(str)), old, new)
                : p \in {find(str, old, 1)}})
          : str \in {s}})

RECURSIVE lstrip_chars(_, _)
lstrip_chars(s, chars) ==
    only({IF Len(str) > 0 /\ Char(str, 1) \in chars
          THEN lstrip_chars(SubSeq(str, 2, Len(str)), chars) ELSE str
          : str \in {s}})

RECURSIVE rstrip_chars(_, _)
rstrip_chars(s, chars) ==
    only({IF Len(str) > 0 /\ Char(str, Len(str)) \in chars
          THEN rstrip_chars(SubSeq(str, 1, Len(str) - 1), chars) ELSE str
          : str \in {s}})

strip_chars(s, chars) == rstrip_chars(lstrip_chars(s, chars), chars)

Whitespace == {" ", "\t", "\n"}

\* str.strip()
strip(s) == strip_chars(s, Whitespace)

UpperLetters == "ABCDEFGHIJKLMNOPQRSTUVWXYZ"

LowerLetters == "abcdefghijklmnopqrstuvwxyz"

DigitChars == "0123456789"

lower_char(c) ==
    only({IF p = 0 THEN c ELSE Char(LowerLetters, p) : p \in {find(UpperLetters, c, 1)}})

upper_char(c) ==
    only({IF p = 0 THEN c ELSE Char(UpperLetters, p) : p \in {find(LowerLetters, c, 1)}})

\* str.isalnum() of one character
isalnum(c) == contains(UpperLetters, c) \/ contains(LowerLetters, c) \/ contains(DigitChars, c)

RECURSIVE lower(_)
\* str.lower()
lower(s) ==
    only({IF str = "" THEN ""
          ELSE lower_char(Char(str, 1)) \o lower(SubSeq(str, 2, Len(str)))
          : str \in {s}})

RECURSIVE title_from(_, _)
\* str.title(): a letter is upper-cased after a non-letter, lower-cased after a letter
title_from(s, prev_letter) ==
    only({IF str = "" THEN ""
          ELSE (IF prev THEN lower_char(Char(str, 1)) ELSE upper_char(Char(str, 1)))
                   \o title_from(SubSeq(str, 2, Len(str)),
                                 contains(UpperLetters, Char(str, 1))
                                     \/ contains(LowerLetters, Char(str, 1)))
          : str \in {s}, prev \in {prev_letter}})

\* a digit test that the empty string passes
isdigit_vacuous(s) == \A i \in 1..Len(s) : contains(DigitChars, Char(s, i))

\* str.isdigit(): non-empty and every character a digit
isdigit(s) == s # "" /\ \A i \in 1..Len(s) : contains(DigitChars, Char(s, i))

RECURSIVE int_of(_)
\* int(s) for a string of digits
int_of(s) ==
    only({IF str = "" THEN 0
          ELSE 10 * int_of(SubSeq(str, 1, Len(str) - 1))
                   + (find(DigitChars, Char(str, Len(str)), 1) - 1)
          : str \in {s}})

RECURSIVE str_of_int(_)
\* str(n) for n >= 0
str_of_int(n) ==
    only({IF k < 10 THEN Char(DigitChars, k + 1)
          ELSE str_of_int(k \div 10) \o Char(DigitChars, (k % 10) + 1)
          : k \in {n}})

(***************************************************************************)
(* Path tokens: an object key (a str) or a list index (an int)             *)
(***************************************************************************)
KeyToken(k) == [int |-> FALSE, key |-> k, idx |-> 0]

IndexToken(i) == [int |-> TRUE, key |-> "", idx |-> i]

\* an index left in its brackets
token_str_bracketed(tok) ==
    IF tok.int THEN "[" \o str_of_int(tok.idx) \o "]" ELSE tok.key

\* str(token)
token_str(tok) == IF tok.int THEN str_of_int(tok.idx) ELSE tok.key

TokenizeError == [ok |-> FALSE, tokens |-> <<>>]

flush(buffer, tokens) == IF buffer # "" THEN Append(tokens, KeyToken(buffer)) ELSE tokens

RECURSIVE path_scan(_, _, _, _)
\* the while loop of _path_to_tokens, entered with the values of idx
\* (1-based), buffer and tokens
path_scan(path0, idx0, buffer0, tokens0) ==
    only({IF idx > Len(path) THEN [ok |-> TRUE, tokens |-> flush(buffer, tokens)]
          ELSE IF Char(path, idx) = "."
               THEN path_scan(path, idx + 1, "", flush(buffer, tokens))
          ELSE IF Char(path, idx) = "["
               THEN only({IF end = 0 THEN TokenizeError
                          ELSE IF ~isdigit(SubSeq(path, idx + 1, end - 1)) THEN TokenizeError
                          ELSE path_scan(path, end + 1, "",
                                   Append(flush(buffer, tokens),
                                          IndexToken(int_of(SubSeq(path, idx + 1, end - 1)))))
                          : end \in {find(path, "]", idx)}})
          ELSE path_scan(path, idx + 1, buffer \o Char(path, idx), tokens)
          : path \in {path0}, idx \in {idx0}, buffer \in {buffer0}, tokens \in {tokens0}})

\* [ok, tokens]; ok = FALSE stands for the ValueError
_path_to_tokens(path) == path_scan(path, 1, "", <<>>)

RECURSIVE join_dot(_)
\* ".".join(parts)
join_dot(parts) ==
    only({IF ps = <<>> THEN ""
          ELSE IF Len(ps) = 1 THEN ps[1]
          ELSE ps[1] \o "." \o join_dot(Tail(ps))
          : ps \in {parts}})

_tokens_to_mongo(tokens) == join_dot([i \in 1..Len(tokens) |-> token_str(tokens[i])])

\* defined on paths that tokenize
_field_path_to_mongo(path) == _tokens_to_mongo(_path_to_tokens(path).tokens)

(***************************************************************************)
(* JSON values                                                             *)
(***************************************************************************)
EmptyMap == <<>>

Str(x) == [t |-> "str", s |-> x, n |-> 0, d |-> EmptyMap, l |-> <<>>]

Bool(b) == [t |-> "bool", s |-> IF b THEN "true" ELSE "false", n |-> 0, d |-> EmptyMap, l |-> <<>>]

Num(i) == [t |-> "int", s |-> "", n |-> i, d |-> EmptyMap, l |-> <<>>]

None == [t |-> "none", s |-> "", n |-> 0, d |-> EmptyMap, l |-> <<>>]

Dict(f) == [t |-> "dict", s |-> "", n |-> 0, d |-> f, l |-> <<>>]

List(q) == [t |-> "list", s |-> "", n |-> 0, d |-> EmptyMap, l |-> q]

EmptyDict == Dict(EmptyMap)

EmptyList == List(<<>>)

isinstance(v, type) == v.t = type

\* bool(v): Python truthiness
truthy(v) ==
    only({CASE x.t = "none" -> FALSE
            [] x.t = "str"  -> x.s # ""
            [] x.t = "bool" -> x.s = "true"
            [] x.t = "int"  -> x.n # 0
            [] x.t = "dict" -> DOMAIN x.d # {}
            [] x.t = "list" -> x.l # <<>>
          : x \in {v}})

\* a or b
or(a, b) == only({IF truthy(x) THEN x ELSE b : x \in {a}})

\* dict.get(key), on the map of a dict
get(m, key) == IF key \in DOMAIN m THEN m[key] ELSE None

\* m[key] = value
put(m, key, value) == (key :> value) @@ m

\* str(v) and f"{v}" for the scalar types; a dict or a list would be rendered
\* by repr, which no value of the model reaches
py_str(v) ==
    only({CASE x.t = "str"  -> x.s
            [] x.t = "none" -> "None"
            [] x.t = "bool" -> IF x.s = "true" THEN "True" ELSE "False"
            [] x.t = "int"  -> str_of_int(x.n)
          : x \in {v}})

(***************************************************************************)
(* json.loads and ast.literal_eval, as tables over the texts of the model: *)
(* a text that is not in the table is one the parser rejects.              *)
(***************************************************************************)
ParseError == [ok |-> FALSE, val |-> None]

Parsed(v) == [ok |-> TRUE, val |-> v]

JsonTexts ==
    ( "[\"a\"]" :> List(<<Str("a")>>) )
 @@ ( "[]" :> EmptyList )
 @@ ( "{}" :> EmptyDict )
 @@ ( "{\"role\":\"Eng\"}" :> Dict("role" :> Str("Eng")) )
 @@ ( "[{\"label\":\"Email\",\"value\":\"x@y.com\"}]"
         :> List(<<Dict(("label" :> Str("Email")) @@ ("value" :> Str("x@y.com")))>>) )
 @@ ( "5" :> Num(5) )
 @@ ( "true" :> Bool(TRUE) )
 @@ ( "false" :> Bool(FALSE) )
 @@ ( "null" :> None )
 @@ ( "\"a\"" :> Str("a") )

json_loads(text) == IF text \in DOMAIN JsonTexts THEN Parsed(JsonTexts[text]) ELSE ParseError

LiteralTexts ==
    ( "['a']" :> List(<<Str("a")>>) )
 @@ ( "[\"a\"]" :> List(<<Str("a")>>) )
 @@ ( "[]" :> EmptyList )
 @@ ( "{}" :> EmptyDict )
 @@ ( "5" :> Num(5) )
 @@ ( "True" :> Bool(TRUE) )
 @@ ( "False" :> Bool(FALSE) )
 @@ ( "None" :> None )
 @@ ( "\"a\"" :> Str("a") )
 @@ ( "'a'" :> Str("a") )

literal_eval(text) == IF text \in DOMAIN LiteralTexts THEN Parsed(LiteralTexts[text]) ELSE ParseError

(***************************************************************************)
(* Entity normalizers (src/services/portfolio_normalization.py)            *)
(***************************************************************************)
RECURSIVE collapse_dashes(_)
\* while "--" in clean: clean = clean.replace("--", "-")
collapse_dashes(clean) ==
    only({IF contains(c, "--") THEN collapse_dashes(replace(c, "--", "-")) ELSE c
          : c \in {clean}})

RECURSIVE dash_non_alnum(_)
\* "".join(char if char.isalnum() else "-" for char in value)
dash_non_alnum(value) ==
    only({IF v = "" THEN ""
          ELSE (IF isalnum(Char(v, 1)) THEN Char(v, 1) ELSE "-")
                   \o dash_non_alnum(SubSeq(v, 2, Len(v)))
          : v \in {value}})

_slugify(value) == strip_chars(collapse_dashes(dash_non_alnum(lower(value))), {"-"})

\* a label that is never taken from the method
contact_label_ignores_method(entry) == get(entry, "label")

\* label after lines 17-19: the title-cased method when label is falsy
contact_label(entry) ==
    IF ~truthy(get(entry, "label")) /\ truthy(get(entry, "method"))
    THEN Str(title_from(strip(py_str(get(entry, "method"))), FALSE))
    ELSE get(entry, "label")

\* the AttributeError of label.lower() on a label that is not a str
normalize_contact_entry_raises(entry) ==
    /\ ~truthy(get(entry, "href"))
    /\ truthy(get(entry, "value"))
    /\ only({truthy(label) /\ label.t # "str" : label \in {contact_label(entry)}})

\* entry is the map of a dict
normalize_contact_entry(entry) ==
    only({Dict(  ("label" :> or(label, Str("")))
              @@ ("value" :> or(get(entry, "value"), Str("")))
              @@ ("href" :>
                     IF ~truthy(get(entry, "href")) /\ truthy(get(entry, "value"))
                     THEN IF truthy(label) /\ lower(label.s) = "email"
                          THEN Str("mailto:" \o py_str(get(entry, "value")))
                          ELSE IF truthy(label) /\ lower(label.s) = "phone"
                          THEN Str("tel:" \o py_str(get(entry, "value")))
                          ELSE get(entry, "value")
                     ELSE or(get(entry, "href"), Str("")))
              @@ ("icon" :> get(entry, "icon")) )
          : label \in {contact_label(entry)}})

normalize_experience_entry(entry) ==
    Dict(  ("date" :> or(or(get(entry, "date"), get(entry, "duration")), Str("")))
        @@ ("role" :> or(get(entry, "role"), Str("")))
        @@ ("company" :> or(get(entry, "company"), Str("")))
        @@ ("link" :> get(entry, "link"))
        @@ ("description" :> or(get(entry, "description"), get(entry, "location")))
        @@ ("highlights" :> or(or(get(entry, "highlights"), get(entry, "responsibilities")), EmptyList))
        @@ ("current" :> IF "current" \in DOMAIN entry THEN entry["current"] ELSE Bool(FALSE)) )

\* if isinstance(entry, list) and len(entry) == 1 and isinstance(entry[0], dict):
\* entry = entry[0]
unwrap_single(v) == IF v.t = "list" /\ Len(v.l) = 1 /\ v.l[1].t = "dict" THEN v.l[1] ELSE v

\* the AttributeError of title.lower() in _slugify on a title that is not a str
normalize_project_entry_raises(entry) ==
    /\ ~truthy(or(get(entry, "link"), get(entry, "url")))
    /\ truthy(get(entry, "title"))
    /\ get(entry, "title").t # "str"

\* entry is the map of a dict (after the unwrapping of a one-element list)
normalize_project_entry(entry) ==
    only({Dict(  ("title" :> title0)
              @@ ("tags" :> or(or(get(entry, "technologies"), get(entry, "tags")), EmptyList))
              @@ ("description" :> or(get(entry, "description"), Str("")))
              @@ ("link" :>
                     IF ~truthy(or(get(entry, "link"), get(entry, "url"))) /\ truthy(title0)
                     THEN Str("/projects/" \o _slugify(title0.s))
                     ELSE or(or(get(entry, "link"), get(entry, "url")), Str("")))
              @@ ("caseStudy" :>
                     Dict(  ("overview" :> or(get(entry, "overview"), Str("")))
                         @@ ("goal" :> or(get(entry, "goal"), Str("")))
                         @@ ("role" :>
                                Dict(  ("title" :> or(or(get(entry, "role"), Str("")),
                                                      Str("Full-Stack Engineer")))
                                    @@ ("bullets" :> EmptyList) ))
                         @@ ("screenshots" :> or(get(entry, "screenshots"), EmptyList))
                         @@ ("outcomes" :> or(or(get(entry, "achievements"), get(entry, "outcomes")),
                                              EmptyList)) )) )
          : title0 \in {or(get(entry, "title"), Str(""))}})

normalize_skill_group(entry) ==
    Dict(  ("title" :> or(or(get(entry, "title"), get(entry, "category")), Str("")))
        @@ ("items" :> or(or(get(entry, "items"), get(entry, "skills")), EmptyList)) )

NormalizedSections == {"contacts", "experience", "projects", "skillGroups"}

\* the element the entry normalizer of a section works on: projects and
\* skillGroups unwrap a one-element list
entry_of(section, v) == IF section \in {"projects", "skillGroups"} THEN unwrap_single(v) ELSE v

\* the normalizer of a section applied to one element v of a list (any value):
\* it raises (AttributeError) on a value without .get, and where the
\* normalizer itself raises
entry_raises(section, v) ==
    only({\/ e.t # "dict"
          \/ section = "contacts" /\ normalize_contact_entry_raises(e.d)
          \/ section = "projects" /\ normalize_project_entry_raises(e.d)
          : e \in {entry_of(section, v)}})

normalize_entry(section, v) ==
    only({CASE section = "contacts" -> normalize_contact_entry(e.d)
            [] section = "experience" -> normalize_experience_entry(e.d)
            [] section = "projects" -> normalize_project_entry(e.d)
            [] section = "skillGroups" -> normalize_skill_group(e.d)
          : e \in {entry_of(section, v)}})

\* normalize_update raises when one of the list's elements makes its normalizer raise
normalize_update_raises(field, value) ==
    /\ field \in NormalizedSections
    /\ value.t = "list"
    /\ \E i \in 1..Len(value.l) : entry_raises(field, value.l[i])

normalize_update(field, value) ==
    IF field \in NormalizedSections /\ value.t = "list"
    THEN List([i \in 1..Len(value.l) |-> normalize_entry(field, value.l[i])])
    ELSE value

(***************************************************************************)
(* Edits (ApplySuggestionItem) and the stages of the pipeline              *)
(* (src/api/v1/portfolio.py)                                               *)
(***************************************************************************)
ALLOWED_PORTFOLIO_PREFIXES ==
    {"navItems", "footer", "hero", "experience", "projects", "skillGroups",
     "education", "contacts", "theme", "animations", "metadata", "resumeUrl"}

_LIST_FIELDS == {"contacts", "experience", "projects", "skillGroups", "education"}

_LIST_LEAF_SUFFIXES == {".highlights", ".items", ".tags", ".bio", ".outcomes", ".screenshots"}

LegacyKeys == {"email", "phone", "linkedin", "github", "x", "twitter"}

CanonicalContactFields == <<"label", "value", "href", "icon">>

ApplySuggestionItem(f, v, e) == [field |-> f, value |-> v, expectedCurrent |-> e]

tokens_of(item) == _path_to_tokens(item.field).tokens

\* f"{root}[{index}]"
index_path(root, index) == root \o "[" \o str_of_int(index) \o "]"

\* len(tokens) == 2 and isinstance(tokens[1], int) and tokens[0] in _LIST_FIELDS
is_parent_index(tokens) ==
    \E ts \in {tokens} : Len(ts) = 2 /\ ts[2].int /\ ~ts[1].int /\ ts[1].key \in _LIST_FIELDS

\* len(tokens) > 2 and isinstance(tokens[1], int) and tokens[0] in _LIST_FIELDS
is_indexed_child(tokens) ==
    \E ts \in {tokens} : Len(ts) > 2 /\ ts[2].int /\ ~ts[1].int /\ ts[1].key \in _LIST_FIELDS

_strip_url_prefix(value) ==
    only({IF startswith(trimmed, "http://") THEN SubSeq(trimmed, 8, Len(trimmed))
          ELSE IF startswith(trimmed, "https://") THEN SubSeq(trimmed, 9, Len(trimmed))
          ELSE IF startswith(trimmed, "www.") THEN SubSeq(trimmed, 5, Len(trimmed))
          ELSE trimmed
          : trimmed \in {strip(value)}})

\* a contact as the map label/value/href/icon, the first three of them str
contact_fields(label, value, href, icon) ==
    ("label" :> Str(label)) @@ ("value" :> Str(value)) @@ ("href" :> Str(href)) @@ ("icon" :> icon)

\* the canonical contact (a map label/value/href/icon) of a legacy value
_normalize_contact_legacy_value(kind, value) ==
    only({CASE kind = "email" ->
                 contact_fields("Email", cleaned,
                                IF cleaned # "" THEN "mailto:" \o cleaned ELSE "", Str("email"))
            [] kind = "phone" ->
                 contact_fields("Phone", cleaned,
                                IF cleaned # "" THEN "tel:" \o cleaned ELSE "", Str("phone"))
            [] kind = "github" ->
                 only({contact_fields("GitHub",
                                      IF handle # "" THEN "github.com/" \o handle ELSE cleaned,
                                      IF handle # "" THEN "https://github.com/" \o handle ELSE "",
                                      Str("github"))
                       : handle \in {strip_chars(
                                         strip(replace(_strip_url_prefix(cleaned), "github.com/", "")),
                                         {"/"})}})
            [] kind = "linkedin" ->
                 \* found is <<value, href>>
                 only({only({contact_fields("LinkedIn",
                                            IF found[1] # "" THEN "linkedin.com/in/" \o found[1]
                                            ELSE cleaned,
                                            found[2], Str("linkedin"))
                             : found \in {IF contains(display, "linkedin.com")
                                          THEN <<strip_chars(replace(display, "linkedin.com/in/", ""), {"/"}),
                                                 replace("https://" \o display, "https://https://", "https://")>>
                                          ELSE only({<<IF handle # "" THEN handle ELSE cleaned,
                                                       IF handle # "" THEN "https://linkedin.com/in/" \o handle
                                                       ELSE "">>
                                                     : handle \in {replace(display, " ", "-")}})}})
                       : display \in {_strip_url_prefix(cleaned)}})
            [] kind \in {"x", "twitter"} ->
                 only({contact_fields("X",
                                      IF handle # "" THEN "x.com/" \o handle ELSE cleaned,
                                      IF handle # "" THEN "https://x.com/" \o handle ELSE "",
                                      Str("x"))
                       : handle \in {lstrip_chars(
                                         strip(replace(replace(_strip_url_prefix(cleaned),
                                                               "twitter.com/", ""),
                                                       "x.com/", "")),
                                         {"@"})}})
            [] OTHER -> contact_fields("", cleaned, "", None)
          : cleaned \in {strip(value)}})

\* len(tokens) == 3 and tokens[0] == "contacts" and isinstance(tokens[1], int)
\* and str(tokens[2]).lower() in the legacy keys
is_legacy(tokens) ==
    \E ts \in {tokens} :
        /\ Len(ts) = 3
        /\ ~ts[1].int /\ ts[1].key = "contacts"
        /\ ts[2].int
        /\ lower(token_str(ts[3])) \in LegacyKeys

\* a dict assignment that leaves a key already present alone
legacy_put_keeps_first(legacy_fields, entry) ==
    IF \E j \in 1..Len(legacy_fields) :
           legacy_fields[j].index = entry.index /\ legacy_fields[j].key = entry.key
    THEN legacy_fields
    ELSE Append(legacy_fields, entry)

\* legacy_fields[(index, key)] = item on the dict as the sequence of its
\* entries in insertion order: a repeated key keeps its position and takes
\* the later item
legacy_put(legacy_fields, entry) ==
    IF \E j \in 1..Len(legacy_fields) :
           legacy_fields[j].index = entry.index /\ legacy_fields[j].key = entry.key
    THEN [j \in 1..Len(legacy_fields) |->
             IF legacy_fields[j].index = entry.index /\ legacy_fields[j].key = entry.key
             THEN entry ELSE legacy_fields[j]]
    ELSE Append(legacy_fields, entry)

RECURSIVE legacy_collect(_, _, _)
\* the dict legacy_fields after the first loop, from the edit i0 on
legacy_collect(updates, i0, legacy_fields0) ==
    only({IF i > Len(updates) THEN legacy_fields
          ELSE only({IF is_legacy(tokens)
                     THEN only({legacy_collect(updates, i + 1, legacy_put(legacy_fields, entry))
                                : entry \in {[index |-> tokens[2].idx,
                                              key |-> lower(token_str(tokens[3])),
                                              item |-> updates[i]]}})
                     ELSE legacy_collect(updates, i + 1, legacy_fields)
                     : tokens \in {tokens_of(updates[i])}})
          : i \in {i0}, legacy_fields \in {legacy_fields0}})

RECURSIVE legacy_derive(_, _, _, _)
\* the derived edits of one legacy entry (lines 247-256), for the canonical
\* fields from k0 on; normalized is its canonical contact
legacy_derive(entry, normalized, existing_fields, k0) ==
    only({IF k > Len(CanonicalContactFields) THEN <<>>
          ELSE only({(IF field_path \in existing_fields THEN <<>>
                      ELSE <<ApplySuggestionItem(field_path,
                                                 get(normalized, CanonicalContactFields[k]),
                                                 entry.item.expectedCurrent)>>)
                         \o legacy_derive(entry, normalized, existing_fields, k + 1)
                     : field_path \in {index_path("contacts", entry.index) \o "."
                                           \o CanonicalContactFields[k]}})
          : k \in {k0}})

RECURSIVE legacy_emit(_, _, _)
\* the second loop (lines 245-256), from the entry j0 of legacy_fields on
legacy_emit(legacy_fields, existing_fields, j0) ==
    only({IF j > Len(legacy_fields) THEN <<>>
          ELSE only({legacy_derive(legacy_fields[j], normalized, existing_fields, 1)
                     : normalized \in {_normalize_contact_legacy_value(
                                           legacy_fields[j].key,
                                           py_str(or(legacy_fields[j].item.value, Str(""))))}})
                   \o legacy_emit(legacy_fields, existing_fields, j + 1)
          : j \in {j0}})

RECURSIVE not_legacy(_, _)
\* the edits the first loop appends to expanded, from the edit i0 on
not_legacy(updates, i0) ==
    only({IF i > Len(updates) THEN <<>>
          ELSE (IF is_legacy(tokens_of(updates[i])) THEN <<>> ELSE <<updates[i]>>)
                   \o not_legacy(updates, i + 1)
          : i \in {i0}})

\* the expansion without the check of the explicit fields
_expand_contact_legacy_updates_always_derives(updates) ==
    only({not_legacy(updates, 1) \o legacy_emit(legacy_fields, {}, 1)
          : legacy_fields \in {legacy_collect(updates, 1, <<>>)}})

\* defined on batches whose paths all tokenize
_expand_contact_legacy_updates(updates) ==
    only({not_legacy(updates, 1) \o legacy_emit(legacy_fields, existing_fields, 1)
          : legacy_fields \in {legacy_collect(updates, 1, <<>>)},
            existing_fields \in {{updates[i].field : i \in 1..Len(updates)}}})

RECURSIVE without_roots(_, _, _)
\* the second loop of _prune_root_updates_with_children, from the edit i0 on
without_roots(updates, roots_with_children, i0) ==
    only({IF i > Len(updates) THEN <<>>
          ELSE (IF Len(tokens_of(updates[i])) = 1
                   /\ \E tok \in {tokens_of(updates[i])[1]} :
                          ~tok.int /\ tok.key \in roots_with_children
                THEN <<>> ELSE <<updates[i]>>)
                   \o without_roots(updates, roots_with_children, i + 1)
          : i \in {i0}})

\* the pruning with the precedence reversed: the whole-section edit is kept
\* and the finer edits of its section are dropped
_prune_root_updates_keeps_roots(updates) ==
    LET root_updates ==
            {token_str(tokens_of(updates[i])[1]) :
                i \in {j \in 1..Len(updates) : Len(tokens_of(updates[j])) = 1}}
    IN  SelectSeq(updates, LAMBDA item :
            LET tokens == tokens_of(item)
            IN  ~(Len(tokens) > 1 /\ token_str(tokens[1]) \in root_updates))

_prune_root_updates_with_children(updates) ==
    only({IF roots_with_children = {} THEN updates
          ELSE without_roots(updates, roots_with_children, 1)
          : roots_with_children \in
                {{token_str(ts[1]) :
                     ts \in {t \in {tokens_of(updates[i]) : i \in 1..Len(updates)} : Len(t) > 1}}}})

_maybe_parse_json(value) ==
    IF value.t = "str"
    THEN only({IF startswith(trimmed, "{") \/ startswith(trimmed, "[")
               THEN IF json_loads(trimmed).ok THEN json_loads(trimmed).val ELSE value
               ELSE value
               : trimmed \in {strip(value.s)}})
    ELSE value

_map_field_aliases(field) ==
    IF endswith(field, ".organization") THEN replace(field, ".organization", ".company")
    ELSE IF endswith(field, ".position") THEN replace(field, ".position", ".role")
    ELSE IF endswith(field, ".name") /\ startswith(field, "projects[") THEN replace(field, ".name", ".title")
    ELSE field

\* the loop of apply_portfolio_suggestions over payload.updates (lines 796-798)
parse_and_alias(updates) ==
    [i \in 1..Len(updates) |->
        [updates[i] EXCEPT !.value = _maybe_parse_json(@), !.field = _map_field_aliases(@)]]

RECURSIVE _set_nested_dict_value(_, _, _)
\* target is the map of a dict, keys a non-empty sequence of str; the result
\* is the map after the in-place insertion
_set_nested_dict_value(target0, keys0, value) ==
    only({IF Len(keys) = 1 THEN put(target, keys[1], value)
          ELSE put(target, keys[1],
                   Dict(_set_nested_dict_value(
                            IF keys[1] \in DOMAIN target /\ target[keys[1]].t = "dict"
                            THEN target[keys[1]].d ELSE EmptyMap,
                            Tail(keys), value)))
          : target \in {target0}, keys \in {keys0}})

\* the set parent_fields / parent_index_fields: the field strings of the
\* whole-item edits
parent_fields_of(updates) ==
    {updates[i].field : i \in {j \in 1..Len(updates) : is_parent_index(tokens_of(updates[j]))}}

\* the field string the code builds to look a child's parent up
parent_field_of(tokens) == index_path(tokens[1].key, tokens[2].idx)

\* grouped.setdefault((root, index), {}) followed by _set_nested_dict_value
\* on it, on the dict grouped as the sequence of its entries in insertion order
grouped_put(grouped, root, index, key_list, value) ==
    IF \E j \in 1..Len(grouped) : grouped[j].root = root /\ grouped[j].index = index
    THEN [j \in 1..Len(grouped) |->
             IF grouped[j].root = root /\ grouped[j].index = index
             THEN [grouped[j] EXCEPT !.value = _set_nested_dict_value(@, key_list, value)]
             ELSE grouped[j]]
    ELSE Append(grouped, [root |-> root, index |-> index,
                          value |-> _set_nested_dict_value(EmptyMap, key_list, value)])

RECURSIVE coalesce_group(_, _, _, _)
\* the dict grouped after the second loop, from the edit i0 on
coalesce_group(updates, parent_fields, i0, grouped0) ==
    only({IF i > Len(updates) THEN grouped
          ELSE only({IF is_indexed_child(tokens) /\ parent_field_of(tokens) \notin parent_fields
                     THEN only({coalesce_group(updates, parent_fields, i + 1, next)
                                : next \in {grouped_put(grouped, tokens[1].key, tokens[2].idx,
                                                [k \in 1..(Len(tokens) - 2) |-> token_str(tokens[k + 2])],
                                                updates[i].value)}})
                     ELSE coalesce_group(updates, parent_fields, i + 1, grouped)
                     : tokens \in {tokens_of(updates[i])}})
          : i \in {i0}, grouped \in {grouped0}})

RECURSIVE not_indexed_child(_, _)
\* the edits the second loop appends to kept, from the edit i0 on
not_indexed_child(updates, i0) ==
    only({IF i > Len(updates) THEN <<>>
          ELSE (IF is_indexed_child(tokens_of(updates[i])) THEN <<>> ELSE <<updates[i]>>)
                   \o not_indexed_child(updates, i + 1)
          : i \in {i0}})

\* a coalescing that drops the item-field edits and emits nothing for them
_coalesce_indexed_children_no_groups(updates) == not_indexed_child(updates, 1)

_coalesce_indexed_children(updates) ==
    only({not_indexed_child(updates, 1)
              \o [j \in 1..Len(grouped) |->
                     ApplySuggestionItem(index_path(grouped[j].root, grouped[j].index),
                                         Dict(grouped[j].value), Str(""))]
          : grouped \in {coalesce_group(updates, parent_fields_of(updates), 1, <<>>)}})

RECURSIVE without_parented(_, _, _)
\* the loop of _prune_parent_index_updates, from the edit i0 on
without_parented(updates, parent_index_fields, i0) ==
    only({IF i > Len(updates) THEN <<>>
          ELSE (IF \E tokens \in {tokens_of(updates[i])} :
                       is_indexed_child(tokens) /\ parent_field_of(tokens) \in parent_index_fields
                THEN <<>> ELSE <<updates[i]>>)
                   \o without_parented(updates, parent_index_fields, i + 1)
          : i \in {i0}})

_prune_parent_index_updates(updates) ==
    only({IF parent_index_fields = {} THEN updates
          ELSE without_parented(updates, parent_index_fields, 1)
          : parent_index_fields \in {parent_fields_of(updates)}})

\* path.split(".", 1)[0].split("[", 1)[0]
base_of(path) ==
    only({only({IF bracket = 0 THEN head ELSE SubSeq(head, 1, bracket - 1)
                : bracket \in {find(head, "[", 1)}})
          : head \in {only({IF dot = 0 THEN path ELSE SubSeq(path, 1, dot - 1)
                            : dot \in {find(path, ".", 1)}})}})

\* the validation that stops after the first path
_validate_update_fields_first_only(paths) ==
    paths = <<>> \/ (paths[1] # "" /\ base_of(paths[1]) \in ALLOWED_PORTFOLIO_PREFIXES)

\* TRUE when _validate_update_fields returns, FALSE when it raises ValueError
_validate_update_fields(paths) ==
    \A i \in 1..Len(paths) : paths[i] # "" /\ base_of(paths[i]) \in ALLOWED_PORTFOLIO_PREFIXES

(***************************************************************************)
(* Value reader, coercion and mutation compilation                         *)
(***************************************************************************)
RECURSIVE read_tokens(_, _)
\* the for loop of _read_value_at_path; None stands for "absent"
read_tokens(current0, tokens0) ==
    only({IF tokens = <<>> THEN current
          ELSE IF tokens[1].int
               THEN IF current.t # "list" \/ tokens[1].idx >= Len(current.l) THEN None
                    ELSE read_tokens(current.l[tokens[1].idx + 1], Tail(tokens))
               ELSE IF current.t # "dict" \/ tokens[1].key \notin DOMAIN current.d THEN None
                    ELSE read_tokens(current.d[tokens[1].key], Tail(tokens))
          : current \in {current0}, tokens \in {tokens0}})

\* a reader that stops after the first token
_read_value_at_path_first_token(data, path) ==
    IF _path_to_tokens(path).tokens = <<>> THEN data
    ELSE read_tokens(data, <<_path_to_tokens(path).tokens[1]>>)

\* defined on paths that tokenize
_read_value_at_path(data, path) == read_tokens(data, _path_to_tokens(path).tokens)

\* the string between the first "[" and the last "]", both included; "" when
\* start == -1 or end == -1 or end <= start
bracket_candidate(trimmed) ==
    only({IF start # 0 /\ end # 0 /\ end > start THEN SubSeq(trimmed, start, end) ELSE ""
          : start \in {find(trimmed, "[", 1)}, end \in {rfind(trimmed, "]")}})

\* json.loads(trimmed), then json.loads of the bracketed substring
loads_or_candidate(trimmed) ==
    IF json_loads(trimmed).ok THEN json_loads(trimmed)
    ELSE only({IF candidate # "" /\ json_loads(candidate).ok THEN json_loads(candidate)
               ELSE ParseError
               : candidate \in {bracket_candidate(trimmed)}})

\* [ok, val]; ok = FALSE stands for the HTTPException (400)
_coerce_list_field(field, value) ==
    IF field \notin _LIST_FIELDS THEN Parsed(value)
    ELSE IF value.t = "str"
         THEN only({IF trimmed = "" THEN Parsed(EmptyList) ELSE loads_or_candidate(trimmed)
                    : trimmed \in {strip(value.s)}})
         ELSE Parsed(value)

\* [ok, val]; ok = FALSE stands for the HTTPException (400)
_coerce_leaf_list_field(field, value) ==
    IF ~\E suffix \in _LIST_LEAF_SUFFIXES : endswith(field, suffix) THEN Parsed(value)
    ELSE IF value.t = "list" THEN Parsed(value)
    ELSE IF value.t # "str" THEN Parsed(value)
    ELSE only({IF trimmed = "" THEN Parsed(EmptyList)
               ELSE IF json_loads(trimmed).ok THEN json_loads(trimmed)
               ELSE IF literal_eval(trimmed).ok /\ literal_eval(trimmed).val.t = "list"
                    THEN literal_eval(trimmed)
               ELSE only({IF candidate # "" /\ json_loads(candidate).ok THEN json_loads(candidate)
                          ELSE IF candidate # "" /\ literal_eval(candidate).ok
                                  /\ literal_eval(candidate).val.t = "list"
                               THEN literal_eval(candidate)
                          ELSE ParseError
                          : candidate \in {bracket_candidate(trimmed)}})
               : trimmed \in {strip(value.s)}})

\* lines 817-820: a str on a path ending in .current
coerce_current(field, value) ==
    IF value.t = "str" /\ endswith(field, ".current")
    THEN only({IF lowered \in {"true", "false"} THEN Bool(lowered = "true") ELSE value
               : lowered \in {lower(strip(value.s))}})
    ELSE value

\* len(tokens) == 2 and isinstance(tokens[1], int)
is_index_path(tokens) == \E ts \in {tokens} : Len(ts) = 2 /\ ts[2].int

_normalize_indexed_update_raises(field, value) ==
    \E tokens \in {_path_to_tokens(field).tokens} :
        /\ is_index_path(tokens)
        /\ ~tokens[1].int
        /\ \E entry \in {unwrap_single(value)} :
               /\ entry.t = "dict"
               /\ \/ tokens[1].key = "contacts" /\ normalize_contact_entry_raises(entry.d)
                  \/ tokens[1].key = "projects" /\ normalize_project_entry_raises(entry.d)

_normalize_indexed_update(field, value) ==
    only({IF ~is_index_path(tokens) THEN value
          ELSE only({IF ~tokens[1].int /\ tokens[1].key \in NormalizedSections /\ entry.t = "dict"
                     THEN normalize_entry(tokens[1].key, entry)
                     ELSE entry
                     : entry \in {unwrap_single(value)}})
          : tokens \in {_path_to_tokens(field).tokens}})

\* the padding with null placeholders
padded_set_null(items, index, value) ==
    [k \in 1..(IF Len(items) <= index THEN index + 1 ELSE Len(items)) |->
        IF k = index + 1 THEN value
        ELSE IF k <= Len(items) THEN items[k] ELSE None]

\* items padded with {} up to index, items[index] = value
padded_set(items, index, value) ==
    [k \in 1..(IF Len(items) <= index THEN index + 1 ELSE Len(items)) |->
        IF k = index + 1 THEN value
        ELSE IF k <= Len(items) THEN items[k] ELSE EmptyDict]

\* the indexed set that stages a whole-array value whatever the snapshot holds
_apply_indexed_list_set_always_stages(updates, current_data, field, value) ==
    LET tokens == _path_to_tokens(field).tokens
    IN  IF ~is_index_path(tokens) THEN [done |-> FALSE, updates |-> updates]
        ELSE IF tokens[1].int \/ tokens[1].key \notin _LIST_FIELDS
             THEN [done |-> FALSE, updates |-> updates]
        ELSE [done |-> TRUE,
              updates |-> put(updates, tokens[1].key,
                              List(padded_set(IF get(updates, tokens[1].key).t = "list"
                                              THEN updates[tokens[1].key].l ELSE <<>>,
                                              tokens[2].idx, value)))]

\* [done, updates]: done is the bool the function returns, updates the map
\* of the dict updates after the call
_apply_indexed_list_set(updates, current_data, field, value) ==
    only({IF ~is_index_path(tokens) THEN [done |-> FALSE, updates |-> updates]
          ELSE IF tokens[1].int \/ tokens[1].key \notin _LIST_FIELDS THEN [done |-> FALSE, updates |-> updates]
          ELSE IF get(updates, tokens[1].key).t = "list"
               THEN [done |-> TRUE,
                     updates |-> put(updates, tokens[1].key,
                                     List(padded_set(updates[tokens[1].key].l, tokens[2].idx, value)))]
          ELSE IF _read_value_at_path(current_data, tokens[1].key).t # "list"
               THEN [done |-> TRUE,
                     updates |-> put(updates, tokens[1].key,
                                     List(padded_set(<<>>, tokens[2].idx, value)))]
          ELSE [done |-> FALSE, updates |-> updates]
          : tokens \in {_path_to_tokens(field).tokens}})

\* one iteration of the loop of lines 815-827 on the dict updates:
\* [status, updates], status "ok", "http400" (a coercion HTTPException) or
\* "crash" (an exception raised by a normalizer)
compile_item(updates, current_data, item) ==
    only({only({IF ~c2.ok THEN [status |-> "http400", updates |-> updates]
     ELSE only({IF ~c3.ok THEN [status |-> "http400", updates |-> updates]
      ELSE IF normalize_update_raises(item.field, c3.val)
           THEN [status |-> "crash", updates |-> updates]
      ELSE only({IF _normalize_indexed_update_raises(item.field, n4)
                 THEN [status |-> "crash", updates |-> updates]
       ELSE only({only({IF set.done THEN [status |-> "ok", updates |-> set.updates]
                        ELSE [status |-> "ok",
                              updates |-> put(updates, _field_path_to_mongo(item.field),
                                              normalized_value)]
                        : set \in {_apply_indexed_list_set(updates, current_data, item.field,
                                                           normalized_value)}})
                  : normalized_value \in {_normalize_indexed_update(item.field, n4)}})
                 : n4 \in {normalize_update(item.field, c3.val)}})
                : c3 \in {_coerce_leaf_list_field(item.field, c2.val)}})
               : c2 \in {_coerce_list_field(item.field, v1)}})
          : v1 \in {coerce_current(item.field, item.value)}})

RECURSIVE compile_from(_, _, _, _)
compile_from(items, i0, updates0, current_data) ==
    only({IF i > Len(items) THEN [status |-> "ok", updates |-> updates]
          ELSE only({IF step.status # "ok" THEN step
                     ELSE compile_from(items, i + 1, step.updates, current_data)
                     : step \in {compile_item(updates, current_data, items[i])}})
          : i \in {i0}, updates \in {updates0}})

\* the compilation that leaves the timestamp out
compile_no_timestamp(items, current_data, ts) == compile_from(items, 1, EmptyMap, current_data)

\* lines 814-829: the compiled mutation map, with the timestamp
compile(items, current_data, ts) ==
    only({IF done.status # "ok" THEN done
          ELSE [status |-> "ok", updates |-> put(done.updates, "last_updated", Num(ts))]
          : done \in {compile_from(items, 1, EmptyMap, current_data)}})

(***************************************************************************)
(* The document store (repositories.portfolio): one document per user,     *)
(* updated by an atomic multi-key $set with positional array addressing    *)
(***************************************************************************)
RECURSIVE split_dot(_)
\* key.split(".")
split_dot(key0) ==
    only({IF dot = 0 THEN <<key>>
          ELSE <<SubSeq(key, 1, dot - 1)>> \o split_dot(SubSeq(key, dot + 1, Len(key)))
          : key \in {key0}, dot \in {find(key0, ".", 1)}})

is_prefix(p, q) == Len(p) <= Len(q) /\ SubSeq(q, 1, Len(p)) = p

\* two distinct keys of the map, one a dotted-segment prefix of the other
conflicting_keys(updates) ==
    \E parts \in {[k \in DOMAIN updates |-> split_dot(k)]} :
        \E a, b \in DOMAIN parts : a # b /\ is_prefix(parts[a], parts[b])

\* a list with the element at index replaced, padded with null
list_set(items, index, new) ==
    [k \in 1..(IF Len(items) <= index THEN index + 1 ELSE Len(items)) |->
        IF k = index + 1 THEN new
        ELSE IF k <= Len(items) THEN items[k] ELSE None]

RECURSIVE set_at(_, _, _)
\* $set of one dotted key: a numeric segment addresses the element of a list
\* (padding with null), any other segment the field of an embedded document
\* (created when missing)
set_at(node0, parts0, value) ==
    only({IF parts = <<>> THEN value
          ELSE IF node.t = "list" /\ isdigit(parts[1])
               THEN only({only({List(list_set(node.l, index, new))
                                : new \in {set_at(IF index < Len(node.l) THEN node.l[index + 1] ELSE None,
                                                  Tail(parts), value)}})
                          : index \in {int_of(parts[1])}})
               ELSE only({only({Dict(put(m, parts[1], new))
                                : new \in {set_at(get(m, parts[1]), Tail(parts), value)}})
                          : m \in {IF node.t = "dict" THEN node.d ELSE EmptyMap}})
          : node \in {node0}, parts \in {parts0}})

RECURSIVE set_all(_, _, _)
set_all(doc0, updates, keys0) ==
    only({IF keys = {} THEN doc
          ELSE only({only({set_all(next, updates, keys \ {key})
                           : next \in {set_at(doc, split_dot(key), updates[key])}})
                     : key \in {CHOOSE k \in keys : TRUE}})
          : doc \in {doc0}, keys \in {keys0}})

\* the document after update_one(filter, {"$set": updates}); the keys do not conflict
update_portfolio_fields(doc, updates) == set_all(doc, updates, DOMAIN updates)

\* build_empty_portfolio_create(user_id), as stored by create_portfolio at time now
build_empty_portfolio_create(now) ==
    Dict(  ("user_id" :> Str("u1"))
        @@ ("navItems" :> EmptyList)
        @@ ("footer" :> Dict(("copyright" :> Str("")) @@ ("tagline" :> Str(""))))
        @@ ("hero" :> Dict(  ("name" :> Str("")) @@ ("title" :> Str("")) @@ ("bio" :> EmptyList)
                          @@ ("availability" :> Dict(("label" :> Str("")) @@ ("status" :> Str("")))) ))
        @@ ("experience" :> EmptyList)
        @@ ("projects" :> EmptyList)
        @@ ("skillGroups" :> EmptyList)
        @@ ("education" :> EmptyList)
        @@ ("contacts" :> EmptyList)
        @@ ("theme" :> Dict(  ("text_primary" :> Str("")) @@ ("text_secondary" :> Str(""))
                           @@ ("text_muted" :> Str("")) @@ ("bg_primary" :> Str(""))
                           @@ ("bg_surface" :> Str("")) @@ ("bg_surface_hover" :> Str(""))
                           @@ ("bg_divider" :> Str("")) @@ ("accent_primary" :> Str(""))
                           @@ ("accent_muted" :> Str("")) ))
        @@ ("animations" :> Dict(  ("staggerChildren" :> Num(0)) @@ ("delayChildren" :> Num(0))
                                @@ ("duration" :> Num(0)) @@ ("ease" :> Str("")) ))
        @@ ("metadata" :> Dict(("title" :> Str("")) @@ ("description" :> Str("")) @@ ("author" :> Str(""))))
        @@ ("resumeUrl" :> Str(""))
        @@ ("date_created" :> Num(now))
        @@ ("last_updated" :> Num(now)) )

(***************************************************************************)
(* Output validation (PortfolioOut, src/schemas/portfolio.py) and the      *)
(* stored-document repair (normalize_portfolio_doc)                        *)
(***************************************************************************)
TStr == [k |-> "str"]

TBool == [k |-> "bool"]

TFloat == [k |-> "float"]

TInt == [k |-> "int"]

TOpt(ty) == [k |-> "opt", of |-> ty]

TList(ty) == [k |-> "list", of |-> ty]

\* fields: a sequence of <<name, type, required>>
TModel(fields) == [k |-> "model", fields |-> fields]

NavItem == TModel(<< <<"href", TStr, TRUE>>, <<"label", TStr, TRUE>> >>)

FooterContent == TModel(<< <<"copyright", TStr, FALSE>>, <<"tagline", TStr, FALSE>> >>)

AvailabilityBadge == TModel(<< <<"label", TStr, FALSE>>, <<"status", TStr, FALSE>> >>)

HeroSection ==
    TModel(<< <<"name", TStr, FALSE>>, <<"title", TStr, FALSE>>, <<"bio", TList(TStr), FALSE>>,
              <<"availability", AvailabilityBadge, FALSE>> >>)

ExperienceEntry ==
    TModel(<< <<"date", TStr, TRUE>>, <<"role", TStr, TRUE>>, <<"company", TStr, TRUE>>,
              <<"link", TOpt(TStr), FALSE>>, <<"description", TOpt(TStr), FALSE>>,
              <<"highlights", TList(TStr), FALSE>>, <<"current", TBool, FALSE>> >>)

ProjectRole == TModel(<< <<"title", TStr, FALSE>>, <<"bullets", TList(TStr), FALSE>> >>)

ProjectScreenshot ==
    TModel(<< <<"src", TStr, TRUE>>, <<"alt", TStr, FALSE>>, <<"caption", TOpt(TStr), FALSE>> >>)

ProjectCaseStudy ==
    TModel(<< <<"overview", TStr, FALSE>>, <<"goal", TStr, FALSE>>, <<"role", ProjectRole, FALSE>>,
              <<"screenshots", TList(ProjectScreenshot), FALSE>>, <<"outcomes", TList(TStr), FALSE>> >>)

ProjectEntry ==
    TModel(<< <<"title", TStr, TRUE>>, <<"tags", TList(TStr), FALSE>>, <<"description", TStr, TRUE>>,
              <<"link", TStr, TRUE>>, <<"caseStudy", ProjectCaseStudy, FALSE>> >>)

SkillGroup == TModel(<< <<"title", TStr, TRUE>>, <<"items", TList(TStr), FALSE>> >>)

ContactEntry ==
    TModel(<< <<"label", TStr, TRUE>>, <<"value", TStr, TRUE>>, <<"href", TStr, TRUE>>,
              <<"icon", TOpt(TStr), FALSE>> >>)

EducationEntry ==
    TModel(<< <<"degree", TStr, FALSE>>, <<"institution", TStr, FALSE>>, <<"location", TStr, FALSE>>,
              <<"graduationDate", TStr, FALSE>>, <<"gpa", TStr, FALSE>> >>)

ThemeColors ==
    TModel(<< <<"text_primary", TStr, FALSE>>, <<"text_secondary", TStr, FALSE>>,
              <<"text_muted", TStr, FALSE>>, <<"bg_primary", TStr, FALSE>>,
              <<"bg_surface", TStr, FALSE>>, <<"bg_surface_hover", TStr, FALSE>>,
              <<"bg_divider", TStr, FALSE>>, <<"accent_primary", TStr, FALSE>>,
              <<"accent_muted", TStr, FALSE>> >>)

AnimationSettings ==
    TModel(<< <<"staggerChildren", TFloat, FALSE>>, <<"delayChildren", TFloat, FALSE>>,
              <<"duration", TFloat, FALSE>>, <<"ease", TStr, FALSE>> >>)

Metadata ==
    TModel(<< <<"title", TStr, FALSE>>, <<"description", TStr, FALSE>>, <<"author", TStr, FALSE>> >>)

PortfolioOut ==
    TModel(<< <<"user_id", TOpt(TStr), FALSE>>, <<"navItems", TList(NavItem), FALSE>>,
              <<"footer", FooterContent, FALSE>>, <<"hero", HeroSection, FALSE>>,
              <<"experience", TList(ExperienceEntry), FALSE>>,
              <<"projects", TList(ProjectEntry), FALSE>>,
              <<"skillGroups", TList(SkillGroup), FALSE>>,
              <<"education", TList(EducationEntry), FALSE>>,
              <<"contacts", TList(ContactEntry), FALSE>>,
              <<"theme", ThemeColors, FALSE>>, <<"animations", AnimationSettings, FALSE>>,
              <<"metadata", Metadata, FALSE>>, <<"resumeUrl", TStr, FALSE>>,
              <<"date_created", TOpt(TInt), FALSE>>, <<"last_updated", TOpt(TInt), FALSE>> >>)

\* the strings pydantic accepts for a bool
BoolStrings == {"0", "off", "f", "false", "n", "no", "1", "on", "t", "true", "y", "yes"}

RECURSIVE validates(_, _)
\* TRUE when the value validates against the type, FALSE for a ValidationError
validates(v0, ty0) ==
    \E v \in {v0}, ty \in {ty0} :
        CASE ty.k = "str" -> v.t = "str"
          [] ty.k = "bool" -> \/ v.t = "bool"
                              \/ v.t = "int" /\ v.n \in {0, 1}
                              \/ v.t = "str" /\ lower(v.s) \in BoolStrings
          [] ty.k = "float" -> v.t = "int"
          [] ty.k = "int" -> v.t = "int"
          [] ty.k = "opt" -> v.t = "none" \/ validates(v, ty.of)
          [] ty.k = "list" -> v.t = "list" /\ \A i \in 1..Len(v.l) : validates(v.l[i], ty.of)
          [] ty.k = "model" ->
                 /\ v.t = "dict"
                 /\ \A i \in 1..Len(ty.fields) :
                        IF ty.fields[i][1] \in DOMAIN v.d
                        THEN validates(v.d[ty.fields[i][1]], ty.fields[i][2])
                        ELSE ~ty.fields[i][3]

\* _coerce_list of normalize_portfolio_doc: a list, or None
doc_coerce_list(value) ==
    IF value.t = "list" THEN value
    ELSE IF value.t = "str"
         THEN only({IF trimmed = "" THEN EmptyList
                    ELSE only({IF parsed.ok THEN parsed.val ELSE EmptyList
                               : parsed \in {loads_or_candidate(trimmed)}})
                    : trimmed \in {strip(value.s)}})
         ELSE None

RECURSIVE of_kinds(_, _, _)
\* the elements of items, from i0 on, whose type is one of kinds
of_kinds(items, kinds, i0) ==
    only({IF i > Len(items) THEN <<>>
          ELSE (IF items[i].t \in kinds THEN <<items[i]>> ELSE <<>>) \o of_kinds(items, kinds, i + 1)
          : i \in {i0}})

\* the elements the list comprehension of a section keeps
doc_section_items(section, value) ==
    only({IF coerced.t = "list"
          THEN of_kinds(coerced.l,
                        IF section \in {"projects", "skillGroups"} THEN {"dict", "list"} ELSE {"dict"},
                        1)
          ELSE <<>>
          : coerced \in {doc_coerce_list(value)}})

\* doc is the map of the stored document; the keys of the result
normalize_portfolio_doc_keys(doc) ==
    {section \in NormalizedSections :
        doc_coerce_list(get(doc, section)).t # "none"}

normalize_portfolio_doc_raises(doc) ==
    \E section \in normalize_portfolio_doc_keys(doc) :
        \* iterating the int or bool that json.loads returned raises TypeError;
        \* iterating a dict or a str yields no dict
        \/ doc_coerce_list(get(doc, section)).t \in {"int", "bool"}
        \/ \E items \in {doc_section_items(section, get(doc, section))} :
               \E i \in 1..Len(items) : entry_raises(section, items[i])

normalize_portfolio_doc(doc) ==
    [section \in normalize_portfolio_doc_keys(doc) |->
        only({List([i \in 1..Len(items) |-> normalize_entry(section, items[i])])
              : items \in {doc_section_items(section, get(doc, section))}})]

(***************************************************************************)
(* The apply request (apply_portfolio_suggestions) as a state machine      *)
(***************************************************************************)
\* length of the longest batch of a request
MaxBatch == 2

\* latest value of int(time.time())
MaxTime == 2

VARIABLES
    store,          \* the user's stored document, None when there is none
    request,        \* the batch as received (payload.updates at entry)
    payload,        \* payload.updates
    pc,             \* position of the handler
    current_data,   \* the snapshot
    updates,        \* the map of the dict updates handed to the store
    store_ops,      \* the store calls issued so far, in order
    response,       \* HTTP status of the response, 0 while there is none
    tasks,          \* number of scheduled trigger_portfolio_revalidate tasks
    normalized,     \* the repair map of update_portfolio_fields_by_user_id
    now,            \* the last value read from the clock
    other,          \* a second request of the same user, None when there is none
    revalidated,    \* what the notification task returned, "none" before it has run
    call,           \* a direct call of one function of the engine: its name and arguments
    ret,            \* <<>> before the call has returned, <<the returned value>> after
    documents       \* the number of documents the store holds for the user

\* no direct call
NoCall == [fn |-> "", path |-> "", entry |-> None, items |-> <<>>]

\* what a request leaves alone
aside == <<other, revalidated, call, ret>>

vars == <<store, request, payload, pc, current_data, updates, store_ops, response, tasks,
          normalized, now, aside, documents>>

E(f, v) == ApplySuggestionItem(f, v, Str(""))

\* the edits requests are made of
EditPool ==
    { E("hero.name", Str("Ada")),
      E("hero", Dict("name" :> Str("Bo"))),
      E("hero.availability", Dict("label" :> Str("Open"))),
      E("hero.availability.label", Str("Busy")),
      E("bad", Str("v")),
      E("hero[x]", Str("v")),
      E("experience[0]", Dict(("role" :> Str("Eng")) @@ ("company" :> Str("Acme")))),
      E("experience[0].role", Str("Senior")),
      E("experience.[0]", Str("{\"role\":\"Eng\"}")),
      E("experience[1].current", Str("TRUE")),
      E("experience[0].highlights", Str("['a']")),
      E("hero.bio", Str("nope")),
      E("contacts", Str("nope")),
      E("contacts[0].email", Str(" X@y.com ")),
      E("contacts[0].href", Str("custom")),
      E("contacts[0].href", Str("")),
      E("contacts[0]", Dict("label" :> Str("Site"))),
      E("projects[1]", Dict("title" :> Str("My App"))),
      E("projects[0].caseStudy", Dict("goal" :> Str("g"))),
      E("projects[0].caseStudy.overview", Str("o")) }

\* a stored document written before the list sections were all lists
LegacyDoc ==
    Dict(  ("user_id" :> Str("u1"))
        @@ ("hero" :> Dict(("name" :> Str("Old")) @@ ("title" :> Str("")) @@ ("bio" :> EmptyList)))
        @@ ("experience" :> List(<<Dict(  ("date" :> Str("2020")) @@ ("role" :> Str("Dev"))
                                       @@ ("company" :> Str("Co")) )>>))
        @@ ("contacts" :> Str(""))
        @@ ("resumeUrl" :> Str(""))
        @@ ("last_updated" :> Num(1)) )

Init ==
    /\ store \in {None, LegacyDoc}
    /\ \E n \in 1..MaxBatch : request \in [1..n -> EditPool]
    /\ payload = request
    /\ pc = "expand"
    /\ current_data = None
    /\ updates = EmptyMap
    /\ store_ops = <<>>
    /\ response = 0
    /\ tasks = 0
    /\ normalized = EmptyMap
    /\ now = 1
    /\ other = None
    /\ revalidated = "none"
    /\ call = NoCall
    /\ ret = <<>>
    /\ documents = IF store = None THEN 0 ELSE 1

all_tokenize(items) == \A i \in 1..Len(items) : _path_to_tokens(items[i].field).ok

\* the values int(time.time()) may return next: the clock does not go back and
\* advances by at most one second between two readings of a request
Clock == {ts \in {now, now + 1} : ts <= MaxTime}

\* the request ends with the given status
Finish(status) ==
    /\ pc' = "done"
    /\ response' = status

\* line 794; a path that does not tokenize raises ValueError
Expand ==
    /\ pc = "expand"
    /\ IF all_tokenize(payload)
       THEN /\ payload' = _expand_contact_legacy_updates(payload)
            /\ pc' = "prune_root"
            /\ UNCHANGED response
       ELSE /\ Finish(500)
            /\ UNCHANGED payload
    /\ UNCHANGED <<store, request, current_data, updates, store_ops, tasks, normalized, now, aside, documents>>

\* line 795
PruneRoot ==
    /\ pc = "prune_root"
    /\ payload' = _prune_root_updates_with_children(payload)
    /\ pc' = "parse_alias"
    /\ UNCHANGED <<store, request, current_data, updates, store_ops, response, tasks, normalized, now, aside, documents>>

\* lines 796-798
ParseAndAlias ==
    /\ pc = "parse_alias"
    /\ payload' = parse_and_alias(payload)
    /\ pc' = "coalesce"
    /\ UNCHANGED <<store, request, current_data, updates, store_ops, response, tasks, normalized, now, aside, documents>>

\* line 799
Coalesce ==
    /\ pc = "coalesce"
    /\ payload' = _coalesce_indexed_children(payload)
    /\ pc' = "prune_parent"
    /\ UNCHANGED <<store, request, current_data, updates, store_ops, response, tasks, normalized, now, aside, documents>>

\* line 800
PruneParent ==
    /\ pc = "prune_parent"
    /\ payload' = _prune_parent_index_updates(payload)
    /\ pc' = "validate"
    /\ UNCHANGED <<store, request, current_data, updates, store_ops, response, tasks, normalized, now, aside, documents>>

\* line 801; the ValueError is not handled
Validate ==
    /\ pc = "validate"
    /\ IF _validate_update_fields([i \in 1..Len(payload) |-> payload[i].field])
       THEN pc' = "read" /\ UNCHANGED response
       ELSE Finish(500)
    /\ UNCHANGED <<store, request, payload, current_data, updates, store_ops, tasks, normalized, now, aside, documents>>

\* lines 803-807: retrieve_portfolio_raw_by_user_id, whose 404 is caught
ReadSnapshot ==
    /\ pc = "read"
    /\ store_ops' = Append(store_ops, "get_portfolio_raw")
    /\ IF store # None
       THEN current_data' = store /\ pc' = "compile"
       ELSE pc' = "add_get" /\ UNCHANGED current_data
    /\ UNCHANGED <<store, request, payload, updates, response, tasks, normalized, now, aside, documents>>

\* line 808, add_portfolio: the existence check
AddPortfolioGet ==
    /\ pc = "add_get"
    /\ store_ops' = Append(store_ops, "get_portfolio")
    /\ IF store # None
       THEN Finish(409)
       ELSE pc' = "add_create" /\ UNCHANGED response
    /\ UNCHANGED <<store, request, payload, current_data, updates, tasks, normalized, now, aside, documents>>

\* line 808, add_portfolio: create_portfolio; line 809: created.model_dump()
AddPortfolioCreate ==
    /\ pc = "add_create"
    /\ \E ts \in Clock :
        \E created \in {build_empty_portfolio_create(ts)} :
            /\ now' = ts
            /\ store' = created
            /\ current_data' = created
    /\ store_ops' = Append(store_ops, "create_portfolio")
    /\ documents' = documents + 1
    /\ pc' = "compile"
    /\ UNCHANGED <<request, payload, updates, response, tasks, normalized, aside>>

\* lines 811-812
parse_expected(items) ==
    [i \in 1..Len(items) |-> [items[i] EXCEPT !.expectedCurrent = _maybe_parse_json(@)]]

\* the status of one edit in the loop of lines 815-827
item_status(item) == compile_item(EmptyMap, None, item).status

\* the value the loop leaves in item.value (lines 820-822)
coerced_value(item) ==
    only({only({IF ~c2.ok THEN v1
                ELSE only({IF ~c3.ok THEN c2.val ELSE c3.val
                           : c3 \in {_coerce_leaf_list_field(item.field, c2.val)}})
                : c2 \in {_coerce_list_field(item.field, v1)}})
          : v1 \in {coerce_current(item.field, item.value)}})

\* payload.updates after the loop, which stops at the first edit that raises
after_compile(items) ==
    only({[i \in 1..Len(items) |->
              IF bad = {} \/ i <= SetMin(bad)
              THEN [items[i] EXCEPT !.value = coerced_value(items[i])] ELSE items[i]]
          : bad \in {{i \in 1..Len(items) : item_status(items[i]) # "ok"}}})

\* a compilation that stages its values in the snapshot itself
Compile_stages_in_snapshot ==
    /\ pc = "compile"
    /\ \E items \in {parse_expected(payload)} :
        /\ \E ts \in Clock :
               \E result \in {compile(items, current_data, ts)} :
                   IF result.status = "ok"
                   THEN /\ updates' = result.updates
                        /\ current_data' = Dict(result.updates @@ current_data.d)
                        /\ now' = ts
                        /\ pc' = "write"
                        /\ UNCHANGED response
                   ELSE /\ ts = now
                        /\ Finish(IF result.status = "http400" THEN 400 ELSE 500)
                        /\ UNCHANGED <<updates, now, current_data>>
        /\ payload' = after_compile(items)
    /\ UNCHANGED <<store, request, store_ops, tasks, normalized, aside, documents>>

\* lines 811-829: a coercion failure is the HTTPException 400, an exception
\* of a normalizer is not handled
Compile ==
    /\ pc = "compile"
    /\ \E items \in {parse_expected(payload)} :
        /\ \E ts \in Clock :
               \E result \in {compile(items, current_data, ts)} :
                   IF result.status = "ok"
                   THEN /\ updates' = result.updates
                        /\ now' = ts
                        /\ pc' = "write"
                        /\ UNCHANGED response
                   ELSE /\ ts = now
                        /\ Finish(IF result.status = "http400" THEN 400 ELSE 500)
                        /\ UNCHANGED <<updates, now>>
        /\ payload' = after_compile(items)
    /\ UNCHANGED <<store, request, current_data, store_ops, tasks, normalized, aside, documents>>

\* lines 836-842: the notification is scheduled and the response returned
Respond200 ==
    /\ tasks' = tasks + 1
    /\ Finish(200)

\* lines 831-835, update_portfolio_fields_by_user_id: the atomic write, then
\* the validation of the returned document; the store rejects a mutation with
\* conflicting keys
Write ==
    /\ pc = "write"
    /\ store_ops' = Append(store_ops, "update_portfolio_fields")
    /\ IF store = None
       THEN Finish(404) /\ UNCHANGED <<store, tasks, normalized>>
       ELSE IF conflicting_keys(updates)
       THEN Finish(500) /\ UNCHANGED <<store, tasks, normalized>>
       ELSE \E result \in {update_portfolio_fields(store, updates)} :
                /\ store' = result
                /\ IF validates(result, PortfolioOut)
                   THEN Respond200 /\ UNCHANGED normalized
                   ELSE IF normalize_portfolio_doc_raises(result.d)
                             \/ normalize_portfolio_doc_keys(result.d) = {}
                   THEN Finish(500) /\ UNCHANGED <<tasks, normalized>>
                   ELSE /\ normalized' = normalize_portfolio_doc(result.d)
                        /\ pc' = "write_back"
                        /\ UNCHANGED <<response, tasks>>
    /\ UNCHANGED <<request, payload, current_data, updates, now, aside, documents>>

\* update_portfolio_fields_by_user_id: the normalization write-back
WriteBack ==
    /\ pc = "write_back"
    /\ store_ops' = Append(store_ops, "update_portfolio_fields")
    /\ store' = IF store = None THEN None ELSE update_portfolio_fields(store, normalized)
    /\ pc' = "refresh"
    /\ UNCHANGED <<request, payload, current_data, updates, response, tasks, normalized, now, aside, documents>>

\* update_portfolio_fields_by_user_id: the re-read and the second validation
Refresh ==
    /\ pc = "refresh"
    /\ store_ops' = Append(store_ops, "get_portfolio_raw")
    /\ IF store # None /\ validates(store, PortfolioOut)
       THEN Respond200
       ELSE Finish(500) /\ UNCHANGED tasks
    /\ UNCHANGED <<store, request, payload, current_data, updates, normalized, now, aside, documents>>

\* the task that lets an exception of the POST escape
trigger_portfolio_revalidate_no_except(configured, post) ==
    IF ~configured THEN "False"
    ELSE IF post = "exception" THEN "raise"
    ELSE IF post # "200" THEN "False"
    ELSE "True"

\* trigger_portfolio_revalidate: "True" or "False" for the bool it returns,
\* "raise" for an exception that leaves it; configured is NEXT_SITE_URL and
\* REVALIDATE_SECRET being set, post the outcome of client.post, a status
\* code or "exception"
trigger_portfolio_revalidate(configured, post) ==
    IF ~configured THEN "False"
    ELSE IF post = "exception" THEN "False"
    ELSE IF post # "200" THEN "False"
    ELSE "True"

\* the background task, run once the response has been returned
Revalidate ==
    /\ pc = "done"
    /\ tasks > 0
    /\ revalidated = "none"
    /\ \E configured \in BOOLEAN, post \in {"200", "500", "exception"} :
           revalidated' = trigger_portfolio_revalidate(configured, post)
    /\ UNCHANGED <<store, request, payload, pc, current_data, updates, store_ops, response,
                   tasks, normalized, now, other, call, ret, documents>>

Next ==
    \/ Expand
    \/ PruneRoot
    \/ ParseAndAlias
    \/ Coalesce
    \/ PruneParent
    \/ Validate
    \/ ReadSnapshot
    \/ AddPortfolioGet
    \/ AddPortfolioCreate
    \/ Compile
    \/ Write
    \/ WriteBack
    \/ Refresh
    \/ Revalidate

Spec == Init /\ [][Next]_vars

(***************************************************************************)
(* Two apply requests of the same user, served by one event loop: the code *)
(* between two awaits of a request runs without interruption, and the      *)
(* requests interleave at their store calls.  Both requests have passed    *)
(* lines 794-801, which touch nothing shared, and are about to read.       *)
(***************************************************************************)
\* the edits the two requests are made of
TwoPool ==
    { E("hero.name", Str("Ada")),
      E("hero.availability", Dict("label" :> Str("Open"))),
      E("experience[0]", Dict(("role" :> Str("Eng")) @@ ("company" :> Str("Acme")))),
      E("experience[1].current", Str("TRUE")),
      E("contacts[0]", Dict("label" :> Str("Site"))) }

\* lines 794-800 on a batch
staged(batch) ==
    _prune_parent_index_updates(
        _coalesce_indexed_children(
            parse_and_alias(
                _prune_root_updates_with_children(_expand_contact_legacy_updates(batch)))))

InitTwo ==
    /\ store \in {LegacyDoc, build_empty_portfolio_create(1)}
    /\ request \in [1..1 -> TwoPool]
    /\ payload = staged(request)
    /\ pc = "read"
    /\ current_data = None
    /\ updates = EmptyMap
    /\ store_ops = <<>>
    /\ response = 0
    /\ tasks = 0
    /\ normalized = EmptyMap
    /\ now = 1
    /\ revalidated = "none"
    /\ call = NoCall
    /\ ret = <<>>
    /\ documents = 1
    /\ \E batch \in [1..1 -> TwoPool] :
           other = [pc |-> "read", payload |-> staged(batch), current_data |-> None,
                    updates |-> EmptyMap, normalized |-> EmptyMap, response |-> 0, tasks |-> 0]

\* lines 803-829 of the second request: the snapshot read, whose 404 is not
\* modelled (the document exists), and the compilation that follows it
OtherRead ==
    /\ other # None /\ other.pc = "read"
    /\ store # None
    /\ \E items \in {parse_expected(other.payload)} :
           \E ts \in Clock :
               \E result \in {compile(items, store, ts)} :
                   IF result.status = "ok"
                   THEN /\ other' = [other EXCEPT !.pc = "write", !.current_data = store,
                                                  !.payload = after_compile(items),
                                                  !.updates = result.updates]
                        /\ now' = ts
                   ELSE /\ ts = now
                        /\ other' = [other EXCEPT !.pc = "done", !.current_data = store,
                                                  !.payload = after_compile(items),
                                                  !.response = IF result.status = "http400"
                                                               THEN 400 ELSE 500]
                        /\ UNCHANGED now
    /\ UNCHANGED <<store, request, payload, pc, current_data, updates, store_ops, response,
                   tasks, normalized, revalidated, call, ret, documents>>

\* lines 831-842 of the second request: the atomic write, the validation of
\* the returned document, the notification and the response
OtherWrite ==
    /\ other # None /\ other.pc = "write"
    /\ IF store = None
       THEN other' = [other EXCEPT !.pc = "done", !.response = 404] /\ UNCHANGED store
       ELSE IF conflicting_keys(other.updates)
       THEN other' = [other EXCEPT !.pc = "done", !.response = 500] /\ UNCHANGED store
       ELSE \E result \in {update_portfolio_fields(store, other.updates)} :
                /\ store' = result
                /\ other' =
                       IF validates(result, PortfolioOut)
                       THEN [other EXCEPT !.pc = "done", !.response = 200, !.tasks = @ + 1]
                       ELSE IF normalize_portfolio_doc_raises(result.d)
                                 \/ normalize_portfolio_doc_keys(result.d) = {}
                       THEN [other EXCEPT !.pc = "done", !.response = 500]
                       ELSE [other EXCEPT !.pc = "write_back",
                                          !.normalized = normalize_portfolio_doc(result.d)]
    /\ UNCHANGED <<request, payload, pc, current_data, updates, store_ops, response, tasks,
                   normalized, now, revalidated, call, ret, documents>>

\* the normalization write-back of the second request
OtherWriteBack ==
    /\ other # None /\ other.pc = "write_back"
    /\ store' = IF store = None THEN None ELSE update_portfolio_fields(store, other.normalized)
    /\ other' = [other EXCEPT !.pc = "refresh"]
    /\ UNCHANGED <<request, payload, pc, current_data, updates, store_ops, response, tasks,
                   normalized, now, revalidated, call, ret, documents>>

\* the re-read and the second validation of the second request
OtherRefresh ==
    /\ other # None /\ other.pc = "refresh"
    /\ other' = IF store # None /\ validates(store, PortfolioOut)
                THEN [other EXCEPT !.pc = "done", !.response = 200, !.tasks = @ + 1]
                ELSE [other EXCEPT !.pc = "done", !.response = 500]
    /\ UNCHANGED <<store, request, payload, pc, current_data, updates, store_ops, response,
                   tasks, normalized, now, revalidated, call, ret, documents>>

NextTwo ==
    \/ ReadSnapshot
    \/ Compile
    \/ Write
    \/ WriteBack
    \/ Refresh
    \/ OtherRead
    \/ OtherWrite
    \/ OtherWriteBack
    \/ OtherRefresh

SpecTwo == InitTwo /\ [][NextTwo]_vars

(***************************************************************************)
(* Direct calls of the pure functions of the engine: one call per          *)
(* behaviour, its arguments drawn from bounded sets                        *)
(***************************************************************************)
MaxPathLen == 5

\* the characters of the generated paths: a key letter, the three
\* characters the tokenizer acts on, and two digits
PathChars == {"a", ".", "[", "]", "0", "1"}

RECURSIVE PathsUpTo(_)
\* every string over PathChars of length at most n
PathsUpTo(n) ==
    IF n = 0 THEN {""}
    ELSE UNION {shorter \cup {p \o c : p \in {q \in shorter : Len(q) = n - 1}, c \in PathChars}
                : shorter \in {PathsUpTo(n - 1)}}

\* named paths, some of them longer than MaxPathLen or outside PathChars
ExamplePaths == {"a.b[0].c", "a[x]", "a[0].b", "a[01].b", "b[10]", "experience[0].highlights"}

Paths == PathsUpTo(MaxPathLen) \cup ExamplePaths

PathCall(fn, p) == [fn |-> fn, path |-> p, entry |-> None, items |-> <<>>]

\* a list field of a project entry: absent, empty, or one string
optional_list(key, choice, text) ==
    IF choice = 0 THEN EmptyMap
    ELSE key :> (IF choice = 1 THEN EmptyList ELSE List(<<Str(text)>>))

\* a project in the shape normalize_project_entry returns (ProjectEntry)
CanonicalProject ==
    Dict(  ("title" :> Str("My App"))
        @@ ("tags" :> List(<<Str("web")>>))
        @@ ("description" :> Str("d"))
        @@ ("link" :> Str("/projects/my-app"))
        @@ ("caseStudy" :>
               Dict(  ("overview" :> Str("o"))
                   @@ ("goal" :> Str("g"))
                   @@ ("role" :> Dict(("title" :> Str("Lead")) @@ ("bullets" :> EmptyList)))
                   @@ ("screenshots" :> EmptyList)
                   @@ ("outcomes" :> List(<<Str("fast")>>)) )) )

\* project entries that hold any of tags, technologies, outcomes, achievements,
\* and the canonical one
ProjectEntries ==
    {CanonicalProject} \cup
    {Dict(("title" :> Str("My App"))
          @@ optional_list("tags", t, "web") @@ optional_list("technologies", k, "go")
          @@ optional_list("outcomes", o, "fast") @@ optional_list("achievements", a, "award"))
     : t \in 0..2, k \in 0..2, o \in 0..2, a \in 0..2}

MaxCallBatch == 3

\* edits of contact fields, legacy and canonical, and one edit elsewhere
LegacyPool ==
    { ApplySuggestionItem("contacts[0].email", Str("a@b.c"), Str("old")),
      ApplySuggestionItem("contacts[0].email", Str(" X@y.com "), Str("")),
      ApplySuggestionItem("contacts[0].Email", Str("z@w.io"), Str("")),
      ApplySuggestionItem("contacts[0].phone", Str("123"), Str("")),
      ApplySuggestionItem("contacts[1].email", Str("a@b.c"), Str("")),
      ApplySuggestionItem("contacts[0].label", Str("Mail"), Str("")),
      ApplySuggestionItem("hero.name", Str("Ada"), Str("")) }

LegacyBatches == UNION {[1..n -> LegacyPool] : n \in 1..MaxCallBatch}

\* snapshots for the reader: maps, lists and scalars met by keys and indices
ReaderSnapshots ==
    { Dict(("a" :> List(<<Dict("a" :> Str("v")), Str("s")>>)) @@ ("0" :> Str("z"))),
      Dict("a" :> Dict(("a" :> None) @@ ("1" :> List(<<Str("x")>>)))),
      List(<<Str("t"), Dict("a" :> Num(1))>>) }

\* a field of a contact entry: absent, or one of the given values
optional_field(key, values) == {EmptyMap} \cup {key :> v : v \in values}

\* contact entries over label, method, value, href and icon
ContactEntries ==
    {Dict(l @@ m @@ v @@ h @@ i)
     : l \in optional_field("label", {Str(""), Str("Email"), Str("PHONE"), Str("Site"), Num(5)}),
       m \in optional_field("method", {Str("email"), Str(" phone "), Str("linkedIn")}),
       v \in optional_field("value", {Str(""), Str("x@y.z")}),
       h \in optional_field("href", {Str(""), Str("custom")}),
       i \in optional_field("icon", {Str("mail")})}

\* paths for the alias mapper: the aliased suffixes at the end of a path,
\* inside it, repeated, and under other roots
AliasPaths ==
    { "experience[0].organization", "experience[0].position", "projects[1].name",
      "projects[0].title", "hero.name", "organization", "experience[0].company",
      "education[0].organization.organization", "experience[0].positions.position",
      "projects[0].caseStudy.role.name", "projects[0].name.name", "projects.name",
      "experience[0].organization.name", "projects[0].position" }

\* whole-section edits of a list section whose value is a string
SectionStringEdits ==
    {E(R, Str(text)) : R \in {"contacts", "education"},
                       text \in {"", "nope", "5", "{}", "[]", "\"a\"", "true", "[\"a\"]"}}

\* edits with pairwise distinct paths, none a prefix of another
OrderPool ==
    { E("hero.name", Str("Ada")),
      E("hero.availability.label", Str("Busy")),
      E("experience[0].role", Str("Senior")),
      E("experience[1].current", Str("TRUE")),
      E("experience[0].organization", Str("Acme")),
      E("experience[0].company", Str("Co")),
      E("contacts[0].email", Str(" X@y.com ")),
      E("contacts[0].phone", Str("123")),
      E("contacts[1]", Dict("label" :> Str("Site"))) }

\* the batches compiled directly: one whole-section edit, or two edits of
\* OrderPool in either order
CompileBatches ==
    {<<e>> : e \in SectionStringEdits}
    \cup {batch \in [1..2 -> OrderPool] : batch[1] # batch[2]}

\* lines 794-829 on a batch whose paths tokenize and a snapshot: [status,
\* updates], status "crash" also for the ValueError of line 801
compiled_batch(batch, snapshot, ts) ==
    only({IF ~_validate_update_fields([i \in 1..Len(items) |-> items[i].field])
          THEN [status |-> "crash", updates |-> EmptyMap]
          ELSE compile(parse_expected(items), snapshot, ts)
          : items \in {staged(batch)}})

Calls ==
    {PathCall("_map_field_aliases", p) : p \in AliasPaths}
    \cup
    {[fn |-> "apply_portfolio_suggestions", path |-> "", entry |-> d, items |-> b]
     : b \in CompileBatches, d \in {LegacyDoc, build_empty_portfolio_create(1)}}
    \cup
    {[fn |-> "normalize_contact_entry", path |-> "", entry |-> e, items |-> <<>>]
     : e \in ContactEntries}
    \cup
    {[fn |-> "_read_value_at_path", path |-> p, entry |-> d, items |-> <<>>]
     : p \in PathsUpTo(MaxPathLen - 1), d \in ReaderSnapshots}
    \cup
    {PathCall(fn, p) : fn \in {"_path_to_tokens", "_field_path_to_mongo"}, p \in Paths}
    \cup {[fn |-> "normalize_project_entry", path |-> "", entry |-> e, items |-> <<>>]
          : e \in ProjectEntries}
    \cup {[fn |-> "_expand_contact_legacy_updates", path |-> "", entry |-> None, items |-> b]
          : b \in LegacyBatches}

\* the variables of a request, which a direct call leaves alone
request_vars == <<store, request, payload, pc, current_data, updates, store_ops, response,
                  tasks, normalized, now, other, revalidated, documents>>

InitFn ==
    /\ store = None
    /\ request = <<>>
    /\ payload = <<>>
    /\ pc = "done"
    /\ current_data = None
    /\ updates = EmptyMap
    /\ store_ops = <<>>
    /\ response = 0
    /\ tasks = 0
    /\ normalized = EmptyMap
    /\ now = 1
    /\ other = None
    /\ revalidated = "none"
    /\ call \in Calls
    /\ ret = <<>>
    /\ documents = 0

\* _path_to_tokens(path): [ok, tokens], ok = FALSE for the ValueError
CallTokenizer ==
    /\ call.fn = "_path_to_tokens"
    /\ ret = <<>>
    /\ ret' = <<_path_to_tokens(call.path)>>
    /\ UNCHANGED <<request_vars, call>>

\* _field_path_to_mongo(path): [ok, val], ok = FALSE for the ValueError of
\* the tokenizer
CallProjector ==
    /\ call.fn = "_field_path_to_mongo"
    /\ ret = <<>>
    /\ ret' = <<IF _path_to_tokens(call.path).ok
                THEN [ok |-> TRUE, val |-> _field_path_to_mongo(call.path)]
                ELSE [ok |-> FALSE, val |-> ""]>>
    /\ UNCHANGED <<request_vars, call>>

\* normalize_project_entry(entry) on a dict whose title is a str
CallNormalizeProject ==
    /\ call.fn = "normalize_project_entry"
    /\ ret = <<>>
    /\ ret' = <<normalize_project_entry(unwrap_single(call.entry).d)>>
    /\ UNCHANGED <<request_vars, call>>

\* _expand_contact_legacy_updates(updates) on a batch whose paths tokenize
CallExpand ==
    /\ call.fn = "_expand_contact_legacy_updates"
    /\ ret = <<>>
    /\ ret' = <<_expand_contact_legacy_updates(call.items)>>
    /\ UNCHANGED <<request_vars, call>>

\* _read_value_at_path(data, path): [ok, val], ok = FALSE for the ValueError
\* of the tokenizer
CallReader ==
    /\ call.fn = "_read_value_at_path"
    /\ ret = <<>>
    /\ ret' = <<IF _path_to_tokens(call.path).ok
                THEN [ok |-> TRUE, val |-> _read_value_at_path(call.entry, call.path)]
                ELSE [ok |-> FALSE, val |-> None]>>
    /\ UNCHANGED <<request_vars, call>>

\* normalize_contact_entry(entry): [ok, val], ok = FALSE for the
\* AttributeError of label.lower() on a label that is not a str
CallNormalizeContact ==
    /\ call.fn = "normalize_contact_entry"
    /\ ret = <<>>
    /\ ret' = <<IF normalize_contact_entry_raises(call.entry.d)
                THEN [ok |-> FALSE, val |-> None]
                ELSE [ok |-> TRUE, val |-> normalize_contact_entry(call.entry.d)]>>
    /\ UNCHANGED <<request_vars, call>>

\* _map_field_aliases(field)
CallAliasMapper ==
    /\ call.fn = "_map_field_aliases"
    /\ ret = <<>>
    /\ ret' = <<_map_field_aliases(call.path)>>
    /\ UNCHANGED <<request_vars, call>>

\* lines 794-829 of apply_portfolio_suggestions on a snapshot already read
CallCompile ==
    /\ call.fn = "apply_portfolio_suggestions"
    /\ ret = <<>>
    /\ ret' = <<compiled_batch(call.items, call.entry, 1)>>
    /\ UNCHANGED <<request_vars, call>>

NextFn ==
    \/ CallCompile
    \/ CallAliasMapper
    \/ CallNormalizeContact
    \/ CallReader
    \/ CallTokenizer
    \/ CallProjector
    \/ CallNormalizeProject
    \/ CallExpand

SpecFn == InitFn /\ [][NextFn]_vars

(***************************************************************************)
(* Two concurrent add_portfolio calls for one user: the call of an apply   *)
(* request whose snapshot read found nothing, and a second call            *)
(* (repositories.portfolio.create_portfolio inserts a document)            *)
(***************************************************************************)
InitAdd ==
    /\ store = None
    /\ documents = 0
    /\ request \in [1..1 -> TwoPool]
    /\ payload = staged(request)
    /\ pc = "add_get"
    /\ current_data = None
    /\ updates = EmptyMap
    /\ store_ops = <<"get_portfolio_raw">>
    /\ response = 0
    /\ tasks = 0
    /\ normalized = EmptyMap
    /\ now = 1
    /\ revalidated = "none"
    /\ call = NoCall
    /\ ret = <<>>
    /\ other = [pc |-> "add_get", payload |-> <<>>, current_data |-> None,
                updates |-> EmptyMap, normalized |-> EmptyMap, response |-> 0, tasks |-> 0]

\* add_portfolio of the second caller, lines 33-35: the existence check
OtherAddGet ==
    /\ other # None /\ other.pc = "add_get"
    /\ other' = IF store # None
                THEN [other EXCEPT !.pc = "done", !.response = 409]
                ELSE [other EXCEPT !.pc = "add_create"]
    /\ UNCHANGED <<store, request, payload, pc, current_data, updates, store_ops, response,
                   tasks, normalized, now, revalidated, call, ret, documents>>

\* add_portfolio of the second caller, line 36: create_portfolio
OtherAddCreate ==
    /\ other # None /\ other.pc = "add_create"
    /\ \E ts \in Clock :
           \E created \in {build_empty_portfolio_create(ts)} :
               /\ now' = ts
               /\ store' = created
               /\ other' = [other EXCEPT !.pc = "done", !.response = 201,
                                         !.current_data = created]
    /\ documents' = documents + 1
    /\ UNCHANGED <<request, payload, pc, current_data, updates, store_ops, response, tasks,
                   normalized, revalidated, call, ret>>

NextAdd ==
    \/ AddPortfolioGet
    \/ AddPortfolioCreate
    \/ Compile
    \/ Write
    \/ WriteBack
    \/ Refresh
    \/ OtherAddGet
    \/ OtherAddCreate

SpecAdd == InitAdd /\ [][NextAdd]_vars

(***************************************************************************)
(* Retrieval (retrieve_portfolio_by_user_id and _by_portfolio_id,          *)
(* src/services/portfolio_service.py): pc is the position of the           *)
(* retrieval, call its function, its id argument and the document the      *)
(* store held when it started                                              *)
(***************************************************************************)
\* the document the store holds after the write of a batch on a document
written(batch, doc) == update_portfolio_fields(doc, compiled_batch(batch, doc, 1).updates)

\* documents the store can hold: none, the legacy one, a created one, and
\* those after the write of one batch
StoredDocs ==
    {None, LegacyDoc, build_empty_portfolio_create(1)}
    \cup {written(b, d) :
              b \in {b \in CompileBatches :
                        \A d \in {LegacyDoc, build_empty_portfolio_create(1)} :
                            \E done \in {compiled_batch(b, d, 1)} :
                                done.status = "ok" /\ ~conflicting_keys(done.updates)},
              d \in {LegacyDoc, build_empty_portfolio_create(1)}}

\* ObjectId.is_valid(id) on the ids of Retrievals: 24 hexadecimal characters
ObjectIdIsValid(id) == Len(id) = 24

Retrievals ==
    {[fn |-> "retrieve_portfolio_by_user_id", path |-> "", entry |-> d, items |-> <<>>]
     : d \in StoredDocs}
    \cup {[fn |-> "retrieve_portfolio_by_portfolio_id", path |-> id, entry |-> d, items |-> <<>>]
          : id \in {"0123456789abcdef01234567", "nope"}, d \in StoredDocs}

InitGet ==
    /\ call \in Retrievals
    /\ store = call.entry
    /\ documents = IF store = None THEN 0 ELSE 1
    /\ request = <<>>
    /\ payload = <<>>
    /\ pc = "get"
    /\ current_data = None
    /\ updates = EmptyMap
    /\ store_ops = <<>>
    /\ response = 0
    /\ tasks = 0
    /\ normalized = EmptyMap
    /\ now = 1
    /\ other = None
    /\ revalidated = "none"
    /\ ret = <<>>

\* a retrieval that repairs the stored document before it validates it
RetrieveRead_repairs_first ==
    /\ pc = "get"
    /\ store_ops' = Append(store_ops, "get_portfolio_raw")
    /\ IF store = None
       THEN Finish(404) /\ UNCHANGED <<current_data, normalized>>
       ELSE IF normalize_portfolio_doc_raises(store.d)
                 \/ normalize_portfolio_doc_keys(store.d) = {}
       THEN Finish(500) /\ UNCHANGED <<current_data, normalized>>
       ELSE /\ current_data' = store
            /\ normalized' = normalize_portfolio_doc(store.d)
            /\ pc' = "get_write_back"
            /\ UNCHANGED response
    /\ UNCHANGED <<store, request, payload, updates, tasks, now, aside, documents>>

\* lines 73-86 and 95-105: the id check, the read, the validation of the
\* stored document and, when it fails, the repair map
RetrieveRead ==
    /\ pc = "get"
    /\ IF call.fn = "retrieve_portfolio_by_portfolio_id" /\ ~ObjectIdIsValid(call.path)
       THEN Finish(400) /\ UNCHANGED <<store_ops, current_data, normalized>>
       ELSE /\ store_ops' = Append(store_ops, "get_portfolio_raw")
            /\ IF store = None
               THEN Finish(404) /\ UNCHANGED <<current_data, normalized>>
               ELSE IF validates(store, PortfolioOut)
               THEN Finish(200) /\ UNCHANGED <<current_data, normalized>>
               ELSE IF normalize_portfolio_doc_raises(store.d)
                         \/ normalize_portfolio_doc_keys(store.d) = {}
               THEN Finish(500) /\ UNCHANGED <<current_data, normalized>>
               ELSE /\ current_data' = store
                    /\ normalized' = normalize_portfolio_doc(store.d)
                    /\ pc' = "get_write_back"
                    /\ UNCHANGED response
    /\ UNCHANGED <<store, request, payload, updates, tasks, now, aside, documents>>

\* lines 87 and 106: the normalization write-back
RetrieveWriteBack ==
    /\ pc = "get_write_back"
    /\ store_ops' = Append(store_ops, "update_portfolio_fields")
    /\ store' = IF store = None THEN None ELSE update_portfolio_fields(store, normalized)
    /\ pc' = "get_refresh"
    /\ UNCHANGED <<request, payload, current_data, updates, response, tasks, normalized, now,
                   aside, documents>>

\* lines 88-91 and 107-110: the re-read and the second validation
RetrieveRefresh ==
    /\ pc = "get_refresh"
    /\ store_ops' = Append(store_ops, "get_portfolio_raw")
    /\ Finish(IF store # None /\ validates(store, PortfolioOut) THEN 200 ELSE 500)
    /\ UNCHANGED <<store, request, payload, current_data, updates, tasks, normalized, now,
                   aside, documents>>

NextGet ==
    \/ RetrieveRead
    \/ RetrieveWriteBack
    \/ RetrieveRefresh

SpecGet == InitGet /\ [][NextGet]_vars

(***************************************************************************)
(* The stages of the pipeline as functions of the received batch, and the  *)
(* position of a path in a compiled mutation map                           *)
(***************************************************************************)
expanded(batch) == _expand_contact_legacy_updates(batch)

root_pruned(batch) == _prune_root_updates_with_children(expanded(batch))

aliased(batch) == parse_and_alias(root_pruned(batch))

coalesced(batch) == _coalesce_indexed_children(aliased(batch))

pipeline(batch) == _prune_parent_index_updates(coalesced(batch))

\* the value the mutation map holds at a token path: the value under the key
\* that is a prefix of the path, read at the rest of the path
compiled_at(m, tokens) ==
    LET ks == {k \in 1..Len(tokens) : _tokens_to_mongo(SubSeq(tokens, 1, k)) \in DOMAIN m}
    IN  IF ks = {} THEN None
        ELSE LET k == SetMin(ks)
             IN  read_tokens(m[_tokens_to_mongo(SubSeq(tokens, 1, k))], SubSeq(tokens, k + 1, Len(tokens)))

compiled == pc = "write"

failed == pc = "done" /\ response # 200

(***************************************************************************)
(* C1: when the request fails on a coercion error (the only source of a    *)
(* 400), no store call has been issued before the failure.                 *)
(***************************************************************************)
C1_NoStoreAccessBeforeCoercionError ==
    (pc = "done" /\ response = 400) => store_ops = <<>>

(***************************************************************************)
(* C2: a batch with an edit whose root segment is not in the allow-list is *)
(* rejected as a whole, and no store call is ever issued for it.           *)
(***************************************************************************)
root_not_allowed(item) ==
    LET tokens == tokens_of(item)
    IN  tokens # <<>> /\ (tokens[1].int \/ tokens[1].key \notin ALLOWED_PORTFOLIO_PREFIXES)

has_disallowed_root(batch) ==
    all_tokenize(batch) /\ \E i \in 1..Len(batch) : root_not_allowed(batch[i])

C2_DisallowedRootRejectsBatch ==
    has_disallowed_root(request) =>
        /\ store_ops = <<>>
        /\ updates = EmptyMap
        /\ pc \in {"expand", "prune_root", "parse_alias", "coalesce", "prune_parent", "validate", "done"}
        /\ pc = "done" => response = 500

\* a rejected batch that also holds an edit with an allowed root
C2_Witness ==
    /\ has_disallowed_root(request)
    /\ \E i \in 1..Len(request) : ~root_not_allowed(request[i])
    /\ pc = "done" /\ response = 500

(***************************************************************************)
(* C3: the compiled mutation map never holds two distinct keys of which    *)
(* one is a dotted-segment prefix of the other.                            *)
(***************************************************************************)
C3_NoPrefixKeys ==
    ~\E a, b \in DOMAIN updates : a # b /\ is_prefix(split_dot(a), split_dot(b))

(***************************************************************************)
(* C4: when the batch holds a whole-item edit for (R, i), the compiled     *)
(* value of item i is the one compiled from a whole-item edit alone: no    *)
(* item-field edit contributes to it.                                      *)
(***************************************************************************)
whole_items(batch) ==
    {j \in 1..Len(batch) : is_parent_index(tokens_of(batch[j]))}

C4_WholeItemWins ==
    compiled =>
        \A j \in whole_items(request) :
            LET tokens == tokens_of(request[j])
                same == {k \in whole_items(request) : tokens_of(request[k]) = tokens}
            IN  compiled_at(updates, tokens) \in
                    {compiled_at(compile(pipeline(<<request[k]>>), current_data, now).updates, tokens) :
                        k \in same}

(***************************************************************************)
(* C5: a str "true"/"false" (ignoring case) on a path ending in .current   *)
(* reaches the compiled mutation as the boolean.                           *)
(***************************************************************************)
C5_CurrentIsBoolean ==
    compiled =>
        \A j \in 1..Len(request) :
            (/\ endswith(request[j].field, ".current")
             /\ request[j].value.t = "str"
             /\ lower(request[j].value.s) \in {"true", "false"})
            => compiled_at(updates, tokens_of(request[j])) = Bool(lower(request[j].value.s) = "true")

(***************************************************************************)
(* C6: a str on a path ending in a list-leaf suffix never reaches the      *)
(* compiled mutation as the raw string: it is a parsed list there.         *)
(***************************************************************************)
C6_LeafListNeverRawString ==
    compiled =>
        \A j \in 1..Len(request) :
            (/\ \E suffix \in _LIST_LEAF_SUFFIXES : endswith(request[j].field, suffix)
             /\ request[j].value.t = "str")
            => compiled_at(updates, tokens_of(request[j])) # request[j].value

(***************************************************************************)
(* C7: every item-field edit the coalescer merges is found in the          *)
(* synthesized whole item at its nested position, with its own value       *)
(* unless a later edit has exactly the same path.                          *)
(***************************************************************************)
\* the last edit of the list with the given field
last_with_field(items, field) ==
    items[SetMax({k \in 1..Len(items) : items[k].field = field})]

\* the edits the coalescer merges
merged(items) ==
    {j \in 1..Len(items) :
        /\ is_indexed_child(tokens_of(items[j]))
        /\ parent_field_of(tokens_of(items[j])) \notin parent_fields_of(items)}

C7_CoalescingKeepsLeaves ==
    pc = "prune_parent" =>
        \A j \in merged(aliased(request)) :
            LET inp == aliased(request)
                tokens == tokens_of(inp[j])
                rest == [k \in 1..(Len(tokens) - 2) |-> KeyToken(token_str(tokens[k + 2]))]
                synthesized == last_with_field(payload, parent_field_of(tokens))
            IN  read_tokens(synthesized.value, rest) = last_with_field(inp, inp[j].field).value

(***************************************************************************)
(* C8: root-vs-children pruning drops exactly the edits whose path is one  *)
(* token R when some edit has a longer path with first token R, and keeps  *)
(* every other edit, unchanged and in order.                               *)
(***************************************************************************)
superseded_root(items, item) ==
    /\ Len(tokens_of(item)) = 1
    /\ \E k \in 1..Len(items) :
           Len(tokens_of(items[k])) > 1 /\ tokens_of(items[k])[1] = tokens_of(item)[1]

C8_RootPruning ==
    pc = "parse_alias" =>
        payload = SelectSeq(expanded(request),
                            LAMBDA item : ~superseded_root(expanded(request), item))

\* a whole-section edit was dropped and another edit kept
C8_Witness ==
    /\ pc = "parse_alias"
    /\ Len(payload) < Len(expanded(request))
    /\ Len(payload) >= 1

(***************************************************************************)
(* C9 (as stated): a derived edit is emitted at contacts[i].f iff no edit  *)
(* of the original batch has exactly that path, and after the pipeline the *)
(* contact's field f equals the value of the explicit edit.                *)
(***************************************************************************)
contact_path(i, f) == index_path("contacts", i) \o "." \o f

\* the indices i with a legacy edit contacts[i].<legacyKey>
legacy_indices(batch) ==
    {tokens_of(batch[j])[2].idx : j \in {k \in 1..Len(batch) : is_legacy(tokens_of(batch[k]))}}

\* the edits the expander appends to the ones it keeps
derived_edits(batch, out) ==
    SubSeq(out, Len(SelectSeq(batch, LAMBDA item : ~is_legacy(tokens_of(item)))) + 1, Len(out))

ContactFieldSet == {CanonicalContactFields[k] : k \in 1..Len(CanonicalContactFields)}

has_field(items, field) == \E k \in 1..Len(items) : items[k].field = field

C9_DerivedIffNotExplicit ==
    pc = "prune_root" =>
        /\ \A i \in legacy_indices(request), f \in ContactFieldSet :
               has_field(derived_edits(request, payload), contact_path(i, f))
                   <=> ~has_field(request, contact_path(i, f))
        /\ SubSeq(payload, 1, Len(payload) - Len(derived_edits(request, payload)))
               = SelectSeq(request, LAMBDA item : ~is_legacy(tokens_of(item)))

C9_ExplicitValueCompiled ==
    compiled =>
        \A i \in legacy_indices(request), f \in ContactFieldSet :
            has_field(request, contact_path(i, f)) =>
                compiled_at(updates, <<KeyToken("contacts"), IndexToken(i), KeyToken(f)>>)
                    = last_with_field(request, contact_path(i, f)).value

C9_ExplicitWinsEndToEnd == C9_DerivedIffNotExplicit /\ C9_ExplicitValueCompiled

(***************************************************************************)
(* C9 (amended): the same for the expander; in the compiled contact the    *)
(* field f equals the explicit value when that value is a non-empty str    *)
(* that is not JSON text, the explicit edit is the only edit of the batch  *)
(* at or under contacts[i].f, and the batch has no whole-item edit for     *)
(* contacts[i].                                                            *)
(***************************************************************************)
\* the edits whose token path is the given one or extends it
at_or_under(batch, tokens) ==
    {k \in 1..Len(batch) : is_prefix(tokens, tokens_of(batch[k]))}

plain_text(v) ==
    /\ v.t = "str"
    /\ v.s # ""
    /\ ~startswith(strip(v.s), "{")
    /\ ~startswith(strip(v.s), "[")

C9_ExplicitValueCompiledWhenAlone ==
    compiled =>
        \A i \in legacy_indices(request), f \in ContactFieldSet :
            LET tokens == <<KeyToken("contacts"), IndexToken(i), KeyToken(f)>>
            IN  (/\ has_field(request, contact_path(i, f))
                 /\ Cardinality(at_or_under(request, tokens)) = 1
                 /\ plain_text(last_with_field(request, contact_path(i, f)).value)
                 /\ ~\E k \in 1..Len(request) : tokens_of(request[k]) = SubSeq(tokens, 1, 2))
                => compiled_at(updates, tokens) = last_with_field(request, contact_path(i, f)).value

C9_ExplicitWins == C9_DerivedIffNotExplicit /\ C9_ExplicitValueCompiledWhenAlone

\* a legacy edit and an explicit href compiled into one contact
C9_Witness ==
    /\ compiled
    /\ 0 \in legacy_indices(request)
    /\ has_field(request, contact_path(0, "href"))
    /\ compiled_at(updates, <<KeyToken("contacts"), IndexToken(0), KeyToken("href")>>) = Str("custom")
    /\ compiled_at(updates, <<KeyToken("contacts"), IndexToken(0), KeyToken("icon")>>) = Str("email")

(***************************************************************************)
(* C10: whole-item edits on a list section that is not a list in the       *)
(* snapshot compile to one whole-array value under the section key: its    *)
(* length is the largest edited index + 1, every edited index holds the    *)
(* normalized value of its (last) edit, every other index holds {}, and no *)
(* dotted key R.i is emitted.                                              *)
(***************************************************************************)
edited_indices(items, root) ==
    {tokens_of(items[j])[2].idx :
        j \in {k \in 1..Len(items) :
                  is_parent_index(tokens_of(items[k])) /\ tokens_of(items[k])[1].key = root}}

\* the last edit of the list whose path tokenizes to [root, index]
last_item_edit(items, root, index) ==
    items[SetMax({k \in 1..Len(items) :
                     tokens_of(items[k]) = <<KeyToken(root), IndexToken(index)>>})]

normalized_item(item) ==
    _normalize_indexed_update(item.field, normalize_update(item.field, item.value))

C10_PaddedArrayReplace ==
    compiled =>
        \A root \in _LIST_FIELDS :
            LET idxs == edited_indices(payload, root)
            IN  (idxs # {} /\ _read_value_at_path(current_data, root).t # "list") =>
                    /\ root \in DOMAIN updates
                    /\ updates[root].t = "list"
                    /\ Len(updates[root].l) = SetMax(idxs) + 1
                    /\ \A i \in 0..SetMax(idxs) :
                           updates[root].l[i + 1] =
                               IF i \in idxs THEN normalized_item(last_item_edit(payload, root, i))
                               ELSE EmptyDict
                    /\ \A i \in idxs : (root \o "." \o str_of_int(i)) \notin DOMAIN updates

\* projects[1] set against a snapshot without a projects list: index 0 is a placeholder
C10_Witness ==
    /\ compiled
    /\ _read_value_at_path(current_data, "projects").t # "list"
    /\ 1 \in edited_indices(payload, "projects")
    /\ 0 \notin edited_indices(payload, "projects")
    /\ "projects" \in DOMAIN updates
    /\ updates["projects"].l[1] = EmptyDict

(***************************************************************************)
(* C11: whole-item edits on a list section that is a list in the snapshot  *)
(* compile to one dotted key R.i per edited index, holding the normalized  *)
(* value of its (last) edit, and the map holds no key R: no whole-array    *)
(* value is staged, whether i is below the length of the stored list or    *)
(* not.                                                                    *)
(***************************************************************************)
C11_DottedSetOnStoredList ==
    compiled =>
        \A root \in _LIST_FIELDS :
            LET idxs == edited_indices(payload, root)
            IN  (idxs # {} /\ _read_value_at_path(current_data, root).t = "list") =>
                    /\ root \notin DOMAIN updates
                    /\ \A i \in idxs :
                           /\ (root \o "." \o str_of_int(i)) \in DOMAIN updates
                           /\ updates[root \o "." \o str_of_int(i)] =
                                  normalized_item(last_item_edit(payload, root, i))

\* experience[1] set against a stored experience list of one element
C11_Witness ==
    /\ compiled
    /\ _read_value_at_path(current_data, "experience").t = "list"
    /\ Len(_read_value_at_path(current_data, "experience").l) = 1
    /\ 1 \in edited_indices(payload, "experience")
    /\ "experience.1" \in DOMAIN updates
    /\ "experience" \notin DOMAIN updates

(***************************************************************************)
(* C12: the store calls of a request are, in order, one snapshot read and  *)
(* then at most one write, the atomic mutation; the notification is        *)
(* scheduled after that write only, and no other store call (a document    *)
(* creation, a normalization write-back) is issued.                        *)
(***************************************************************************)
C12_OneReadOneWrite ==
    /\ store_ops \in {<<>>, <<"get_portfolio_raw">>,
                      <<"get_portfolio_raw", "update_portfolio_fields">>}
    /\ tasks <= 1
    /\ tasks = 1 => store_ops = <<"get_portfolio_raw", "update_portfolio_fields">>

(***************************************************************************)
(* C13: when two concurrent requests whose compiled keys do not overlap    *)
(* (the timestamp key aside) have both been answered with 200, the stored  *)
(* document holds, at every compiled key of either request, the value that *)
(* request wrote, under every interleaving of their store calls.           *)
(***************************************************************************)
own_keys(m) == DOMAIN m \ {"last_updated"}

\* no key of one map is a key of the other, or addresses a part of its value
disjoint_keys(m1, m2) ==
    \A a \in own_keys(m1), b \in own_keys(m2) :
        /\ ~is_prefix(split_dot(a), split_dot(b))
        /\ ~is_prefix(split_dot(b), split_dot(a))

\* the value of the document at a dotted key
stored_at(doc, key) ==
    LET parts == split_dot(key)
    IN  read_tokens(doc, [i \in 1..Len(parts) |->
                             IF isdigit(parts[i]) THEN IndexToken(int_of(parts[i]))
                             ELSE KeyToken(parts[i])])

holds_writes(doc, m) == \A k \in own_keys(m) : stored_at(doc, k) = m[k]

both_answered ==
    /\ other # None
    /\ pc = "done" /\ response = 200
    /\ other.pc = "done" /\ other.response = 200

C13_DisjointWritesBothKept ==
    (both_answered /\ disjoint_keys(updates, other.updates)) =>
        (holds_writes(store, updates) /\ holds_writes(store, other.updates))

(***************************************************************************)
(* C14: the notification is scheduled only by a request whose mutation     *)
(* write has been issued and that is answered with 200, never by a request *)
(* that fails; and the notification task returns a bool, False for each of *)
(* its failures, without raising, and leaves the response as it was.       *)
(***************************************************************************)
C14_NotificationAfterWrite ==
    /\ tasks > 0 =>
           /\ pc = "done" /\ response = 200
           /\ \E i \in 1..Len(store_ops) : store_ops[i] = "update_portfolio_fields"
    /\ failed => tasks = 0
    /\ revalidated \in {"none", "True", "False"}
    /\ revalidated # "none" => (tasks = 1 /\ response = 200)

\* a notification that failed after a request answered with 200
C14_Witness ==
    /\ revalidated = "False"
    /\ response = 200
    /\ tasks = 1

(***************************************************************************)
(* C15: the map handed to the store for the atomic write holds the key     *)
(* last_updated; and for a batch of one edit whose path is made of keys    *)
(* only and whose root is not a list section, it holds exactly one other   *)
(* key, the dotted projection of the edit's path (as the alias mapping     *)
(* leaves it), with the edit's value (as parsing and coercion leave it).   *)
(***************************************************************************)
keys_only(field) ==
    LET tokens == _path_to_tokens(field)
    IN  /\ tokens.ok
        /\ tokens.tokens # <<>>
        /\ \A i \in 1..Len(tokens.tokens) : ~tokens.tokens[i].int
        /\ tokens.tokens[1].key \notin _LIST_FIELDS

final_value(item) ==
    coerced_value([item EXCEPT !.value = _maybe_parse_json(@), !.field = _map_field_aliases(@)])

positions(p, c) == {i \in 1..Len(p) : Char(p, i) = c}

\* the position of the first "]" after position i, 0 when there is none
closer(p, i) ==
    LET later == {j \in positions(p, "]") : j > i}
    IN  IF later = {} THEN 0 ELSE SetMin(later)

\* the substring a "[" at position i encloses
enclosed(p, i) == SubSeq(p, i + 1, closer(p, i) - 1)

all_digits(s) ==
    /\ Len(s) > 0
    /\ \A k \in 1..Len(s) : Char(s, k) \in {"0", "1", "2", "3", "4", "5", "6", "7", "8", "9"}

\* a "[" with no later "]", or a bracket pair around something else than digits
bad_bracket(p) ==
    \E i \in positions(p, "[") : closer(p, i) = 0 \/ ~all_digits(enclosed(p, i))

\* position i lies in a bracket pair, brackets included
in_pair(p, i) == \E o \in positions(p, "[") : o <= i /\ i <= closer(p, o)

key_char(p, i) == Char(p, i) # "." /\ ~in_pair(p, i)

\* the positions at which a token starts
token_starts(p) ==
    {i \in 1..Len(p) : \/ Char(p, i) = "["
                       \/ key_char(p, i) /\ (i = 1 \/ ~key_char(p, i - 1))}

\* the last position of the run of key characters that starts at i
run_end(p, i) == SetMax({j \in i..Len(p) : \A k \in i..j : key_char(p, k)})

RECURSIVE decimal_value(_)
decimal_value(digits) ==
    IF digits = "" THEN 0
    ELSE 10 * decimal_value(SubSeq(digits, 1, Len(digits) - 1))
         + (CHOOSE d \in 0..9 : Char("0123456789", d + 1) = Char(digits, Len(digits)))

token_at(p, i) ==
    IF Char(p, i) = "[" THEN IndexToken(decimal_value(enclosed(p, i)))
    ELSE KeyToken(SubSeq(p, i, run_end(p, i)))

RECURSIVE in_order(_)
\* the elements of a set of positions, ascending
in_order(S) == IF S = {} THEN <<>> ELSE <<SetMin(S)>> \o in_order(S \ {SetMin(S)})

\* the tokens of a path without a bad bracket, left to right
expected_tokens(p) ==
    LET starts == in_order(token_starts(p))
    IN  [k \in 1..Len(starts) |-> token_at(p, starts[k])]

tokenized == call.fn = "_path_to_tokens" /\ ret # <<>>

\* C16: the tokenizer fails on every path that holds a "[" with no later "]"
\* or a bracket pair whose enclosed substring is not all digits; on every
\* other path it returns the tokens in left-to-right order, each a non-empty
\* key or an integer >= 0, and a.b[0].c gives [a, b, 0, c].
C16_TokenizerContract ==
    tokenized =>
        /\ bad_bracket(call.path) <=> ~ret[1].ok
        /\ ret[1].ok =>
               /\ ret[1].tokens = expected_tokens(call.path)
               /\ \A k \in 1..Len(ret[1].tokens) :
                      IF ret[1].tokens[k].int THEN ret[1].tokens[k].idx >= 0
                      ELSE ret[1].tokens[k].key # ""
        /\ call.path = "a.b[0].c" =>
               ret[1].tokens = <<KeyToken("a"), KeyToken("b"), IndexToken(0), KeyToken("c")>>

\* a path whose bracket pair encloses a letter has been refused
C16_Witness ==
    /\ tokenized
    /\ call.path = "a[a]"
    /\ ~ret[1].ok

(***************************************************************************)
(* C17                                                                     *)
(***************************************************************************)
\* path := segment ("." segment | "[" digits "]")*, segment := [^.\[\]]+
in_grammar(p) ==
    /\ p # ""
    /\ ~bad_bracket(p)
    /\ key_char(p, 1)
    /\ \A i \in positions(p, "]") : in_pair(p, i)
    /\ \A i \in positions(p, ".") : i < Len(p) /\ key_char(p, i + 1)
    /\ \A i \in positions(p, "]") : i = Len(p) \/ Char(p, i + 1) \in {".", "["}

RECURSIVE concat(_)
concat(parts) == IF parts = <<>> THEN "" ELSE Head(parts) \o concat(Tail(parts))

\* the path with every "[" turned into "." and every "]" dropped
bracket_to_dot(p) ==
    concat([i \in 1..Len(p) |->
               IF Char(p, i) = "[" THEN "." ELSE IF Char(p, i) = "]" THEN "" ELSE Char(p, i)])

\* position i holds a zero that leads the digits of a bracket pair
leading_zero(p, i) ==
    \E o \in positions(p, "[") :
        /\ o < i /\ i < closer(p, o) - 1
        /\ \A k \in (o + 1)..i : Char(p, k) = "0"

\* bracket_to_dot with every index written as the numeral of its value
index_to_segment(p) ==
    concat([i \in 1..Len(p) |->
               IF Char(p, i) = "[" THEN "."
               ELSE IF Char(p, i) = "]" \/ leading_zero(p, i) THEN ""
               ELSE Char(p, i)])

projected == call.fn = "_field_path_to_mongo" /\ ret # <<>>

\* C17 as stated: for every path of the grammar, the projection of its
\* tokenization is the path with each bracketed index [n] written as the dot
\* segment .n, the digits as they stand in the path.
C17_ProjectionOfGrammarPath ==
    (projected /\ in_grammar(call.path)) =>
        /\ ret[1].ok
        /\ ret[1].val = bracket_to_dot(call.path)

\* C17 amended: for every path of the grammar, the projection of its
\* tokenization is the path with each bracketed index written as a dot
\* segment holding the decimal numeral of the index, leading zeros dropped;
\* a[0].b gives a.0.b.
C17_ProjectionOfIndexValue ==
    (projected /\ in_grammar(call.path)) =>
        /\ ret[1].ok
        /\ ret[1].val = index_to_segment(call.path)
        /\ call.path = "a[0].b" => ret[1].val = "a.0.b"

\* a path of the grammar whose index has a leading zero has been projected
C17_Witness ==
    /\ projected
    /\ call.path = "a[01].b"
    /\ in_grammar(call.path)
    /\ ret[1] = [ok |-> TRUE, val |-> "a.1.b"]

(***************************************************************************)
(* C18                                                                     *)
(***************************************************************************)
\* the number of calls of a store function issued so far
calls_of(op) == Cardinality({i \in 1..Len(store_ops) : store_ops[i] = op})

\* C18: during an apply request the snapshot is read from the store once,
\* before compilation, and no stage of the compilation modifies it: when the
\* compilation starts and at the moment of the store write it equals the
\* stored document it was taken from, which nothing has written since.
C18_SnapshotReadOnceAndKept ==
    pc \in {"compile", "write"} =>
        /\ calls_of("get_portfolio_raw") = 1
        /\ store_ops[1] = "get_portfolio_raw"
        /\ calls_of("update_portfolio_fields") = 0
        /\ current_data # None
        /\ current_data = store

\* a whole-item edit has been staged as a list for a section the snapshot
\* holds as a string, and the snapshot is still the document that was read
C18_Witness ==
    /\ pc = "write"
    /\ current_data = LegacyDoc
    /\ "contacts" \in DOMAIN updates
    /\ isinstance(updates["contacts"], "list")
    /\ store_ops = <<"get_portfolio_raw">>

(***************************************************************************)
(* C19                                                                     *)
(***************************************************************************)
normalized_project == call.fn = "normalize_project_entry" /\ ret # <<>>

\* the entry's own field when it is present and non-empty, and only
\* otherwise the fallback field (the empty list when that is missing too)
own_or_fallback(entry, own, fallback) ==
    IF truthy(get(entry, own)) THEN get(entry, own)
    ELSE IF truthy(get(entry, fallback)) THEN get(entry, fallback)
    ELSE EmptyList

\* C19: the normalized tags of a project is the entry's own tags when it is
\* present and non-empty and only otherwise its technologies; the normalized
\* caseStudy.outcomes is the entry's own outcomes when present and non-empty
\* and only otherwise its achievements.
C19_OwnFieldBeforeFallback ==
    normalized_project =>
        /\ ret[1].d["tags"] = own_or_fallback(call.entry.d, "tags", "technologies")
        /\ ret[1].d["caseStudy"].d["outcomes"]
               = own_or_fallback(call.entry.d, "outcomes", "achievements")

(***************************************************************************)
(* C20                                                                     *)
(***************************************************************************)
expansion_returned == call.fn = "_expand_contact_legacy_updates" /\ ret # <<>>

\* the positions of the legacy edits of a batch
legacy_edits(batch) == {i \in 1..Len(batch) : is_legacy(tokens_of(batch[i]))}

\* the (index, legacy key) pair the legacy edit at position i targets
pair_of(batch, i) ==
    <<tokens_of(batch[i])[2].idx, lower(token_str(tokens_of(batch[i])[3]))>>

\* the legacy edits that no later edit of the same pair follows
last_edits(batch) ==
    {i \in legacy_edits(batch) :
        \A j \in legacy_edits(batch) : pair_of(batch, j) = pair_of(batch, i) => j <= i}

\* the canonical edits derived from the value of the legacy edit at position i
derived_from(batch, i) ==
    LET canonical == _normalize_contact_legacy_value(
                         pair_of(batch, i)[2], py_str(or(batch[i].value, Str(""))))
        path(k)   == "contacts[" \o str_of_int(pair_of(batch, i)[1]) \o "]." \o k
    IN  {ApplySuggestionItem(path(k), get(canonical, k), batch[i].expectedCurrent)
         : k \in {k \in {"label", "value", "href", "icon"} :
                     \A j \in 1..Len(batch) : batch[j].field # path(k)}}

\* some pair is the target of several edits of the batch
repeated_pair(batch) == last_edits(batch) # legacy_edits(batch)

\* C20: when several edits of a batch target the same (index, legacy key)
\* pair under contacts, the derived canonical edits are computed from the
\* value of the last such edit in input order only, and the earlier ones
\* produce no edit in the output.
C20_LastLegacyEditWins ==
    (expansion_returned /\ repeated_pair(call.items)) =>
        /\ {ret[1][k] : k \in 1..Len(ret[1])}
               = {call.items[i] : i \in (1..Len(call.items)) \ legacy_edits(call.items)}
                 \cup UNION {derived_from(call.items, i) : i \in last_edits(call.items)}
        /\ Len(ret[1]) <= (Len(call.items) - Cardinality(legacy_edits(call.items)))
                          + 4 * Cardinality(last_edits(call.items))

\* two edits of contacts[0].email have been expansion_returned into the four edits of
\* the second value
C20_Witness ==
    /\ expansion_returned
    /\ call.items = << ApplySuggestionItem("contacts[0].email", Str("a@b.c"), Str("old")),
                       ApplySuggestionItem("contacts[0].email", Str(" X@y.com "), Str("")) >>
    /\ Len(ret[1]) = 4
    /\ ApplySuggestionItem("contacts[0].href", Str("mailto:X@y.com"), Str(""))
           \in {ret[1][k] : k \in 1..Len(ret[1])}

(***************************************************************************)
(* C21                                                                     *)
(***************************************************************************)
RECURSIVE walk(_, _)
\* the value reached from a node by a sequence of tokens, None on a mismatch
walk(node, toks) ==
    IF toks = <<>> THEN node
    ELSE IF Head(toks).int
         THEN IF node.t = "list" /\ Head(toks).idx < Len(node.l)
              THEN walk(node.l[Head(toks).idx + 1], Tail(toks)) ELSE None
         ELSE IF node.t = "dict" /\ Head(toks).key \in DOMAIN node.d
              THEN walk(node.d[Head(toks).key], Tail(toks)) ELSE None

reader_returned == call.fn = "_read_value_at_path" /\ ret # <<>>

\* C21 as stated: the reader never raises; for every snapshot and every path
\* it returns the value reached by walking the tokens, and None on any
\* mismatch.
C21_ReaderNeverRaises ==
    reader_returned =>
        /\ ret[1].ok
        /\ ret[1].val = walk(call.entry, expected_tokens(call.path))

\* C21 amended: for every snapshot and every path that tokenizes the reader
\* returns the value reached by walking the tokens, and None on any mismatch,
\* without raising; on a path the tokenizer refuses it raises the
\* tokenizer's error.
C21_ReaderOfTokenizedPath ==
    reader_returned =>
        IF bad_bracket(call.path) THEN ~ret[1].ok
        ELSE /\ ret[1].ok
             /\ ret[1].val = walk(call.entry, expected_tokens(call.path))

\* a key token has met a list: the read returned None without raising
C21_Witness ==
    /\ reader_returned
    /\ call.path = "a.0"
    /\ call.entry.t = "dict" /\ "0" \in DOMAIN call.entry.d
    /\ ret[1] = [ok |-> TRUE, val |-> None]

(***************************************************************************)
(* C22                                                                     *)
(***************************************************************************)
\* the batch as the coalescer receives it (lines 794-798)
before_coalesce ==
    parse_and_alias(_prune_root_updates_with_children(_expand_contact_legacy_updates(request)))

\* the path of the edit tokenizes to [R, i, ...] with more than two tokens
item_field_edit(item, R, i) ==
    LET tokens == tokens_of(item)
    IN  Len(tokens) > 2 /\ tokens[1] = KeyToken(R) /\ tokens[2] = IndexToken(i)

\* the path of the edit tokenizes to [R, i]
whole_item_edit(item, R, i) == tokens_of(item) = <<KeyToken(R), IndexToken(i)>>

\* the indices of R that the batch edits
indices_in(batch, R) ==
    {tokens_of(batch[k])[2].idx :
        k \in {k \in 1..Len(batch) : Len(tokens_of(batch[k])) >= 2
                                      /\ tokens_of(batch[k])[1] = KeyToken(R)
                                      /\ tokens_of(batch[k])[2].int}}

\* C22: after coalescing and parent-vs-child pruning, for every list section
\* R the edit list holds no edit whose path tokenizes to [R, i, ...] with more
\* than two tokens, and for every (R, i) that had item-field edits and no
\* whole-item edit in the batch it holds exactly one whole-item edit for
\* (R, i), a synthesized one, with an empty expectedCurrent.
C22_ChildrenCoalesced ==
    pc = "validate" =>
        \A R \in _LIST_FIELDS :
            /\ \A k \in 1..Len(payload) :
                   ~(Len(tokens_of(payload[k])) > 2
                     /\ tokens_of(payload[k])[1] = KeyToken(R)
                     /\ tokens_of(payload[k])[2].int)
            /\ \A i \in indices_in(before_coalesce, R) :
                   ((\E k \in 1..Len(before_coalesce) : item_field_edit(before_coalesce[k], R, i))
                    /\ ~\E k \in 1..Len(before_coalesce) : whole_item_edit(before_coalesce[k], R, i))
                   => /\ Cardinality({k \in 1..Len(payload) : whole_item_edit(payload[k], R, i)}) = 1
                      /\ \A k \in 1..Len(payload) :
                             whole_item_edit(payload[k], R, i)
                                 => /\ payload[k].expectedCurrent = Str("")
                                    /\ payload[k].value.t = "dict"

\* the only edit of the batch set the role of experience[0]: the staged list
\* is the one synthesized edit of experience[0]
C22_Witness ==
    /\ pc = "validate"
    /\ request = <<E("experience[0].role", Str("Senior"))>>
    /\ payload = <<ApplySuggestionItem("experience[0]", Dict("role" :> Str("Senior")), Str(""))>>

(***************************************************************************)
(* C23                                                                     *)
(***************************************************************************)
contact_normalized == call.fn = "normalize_contact_entry" /\ ret # <<>> /\ ret[1].ok

\* str.title() of the stripped methods of ContactEntries
TitleCased == ("email" :> "Email") @@ (" phone " :> "Phone") @@ ("linkedIn" :> "Linkedin")

\* the field is there with a value that is not empty
present(entry, key) == key \in DOMAIN entry /\ entry[key] \notin {None, Str("")}

\* the label the statement gives the result
stated_label(entry) ==
    IF present(entry, "label") THEN entry["label"]
    ELSE IF present(entry, "method") THEN Str(TitleCased[entry["method"].s])
    ELSE Str("")

\* the label is one of the given spellings of a word
label_is(label, spellings) == label.t = "str" /\ label.s \in spellings

\* the href the statement gives the result
stated_href(entry) ==
    IF present(entry, "href") THEN entry["href"]
    ELSE IF ~present(entry, "value") THEN Str("")
    ELSE IF label_is(stated_label(entry), {"email", "Email", "EMAIL"}) THEN Str("mailto:" \o entry["value"].s)
    ELSE IF label_is(stated_label(entry), {"phone", "Phone", "PHONE"}) THEN Str("tel:" \o entry["value"].s)
    ELSE entry["value"]

alias_returned == call.fn = "_map_field_aliases" /\ ret # <<>>

\* the path ends with the given segment
ends_with(p, segment) ==
    Len(p) >= Len(segment) /\ SubSeq(p, Len(p) - Len(segment) + 1, Len(p)) = segment

\* the path with its final segment, of the given length, replaced
final_replaced(p, length, by) == SubSeq(p, 1, Len(p) - length) \o by

\* the path is projects[i].name
project_name(p) ==
    /\ Len(p) > Len("projects[].name")
    /\ SubSeq(p, 1, 9) = "projects["
    /\ closer(p, 9) = Len(p) - 5
    /\ all_digits(enclosed(p, 9))
    /\ ends_with(p, ".name")

\* the rewrite the statement describes
suffix_rewrite(p) ==
    IF ends_with(p, ".organization") THEN final_replaced(p, 13, ".company")
    ELSE IF ends_with(p, ".position") THEN final_replaced(p, 9, ".role")
    ELSE IF project_name(p) THEN final_replaced(p, 5, ".title")
    ELSE p

\* C24: the alias mapper is a suffix rewrite: a path ending in .organization
\* becomes the same path with only that final segment replaced by .company,
\* a path ending in .position with only the final segment replaced by .role,
\* a path projects[i].name becomes projects[i].title; every other segment of
\* the path and every other path is returned unchanged.
C24_AliasIsSuffixRewrite ==
    alias_returned => ret[1] = suffix_rewrite(call.path)

(***************************************************************************)
(* C25                                                                     *)
(***************************************************************************)
batch_compiled == call.fn = "apply_portfolio_suggestions" /\ ret # <<>>

\* the batch is one whole-section edit of a list section with a string value
section_string_edit(batch) ==
    /\ Len(batch) = 1
    /\ batch[1].field \in _LIST_FIELDS
    /\ batch[1].value.t = "str"

\* C25: for a whole-section edit of a list section whose value is a string,
\* the value compiled under the section key is a list, or else the batch
\* fails with the client-facing error; a value that is not a list is never
\* stored under a list section key.
C25_SectionStringBecomesList ==
    (batch_compiled /\ section_string_edit(call.items)) =>
        \/ ret[1].status = "http400"
        \/ /\ ret[1].status = "ok"
           /\ call.items[1].field \in DOMAIN ret[1].updates
           /\ ret[1].updates[call.items[1].field].t = "list"

(***************************************************************************)
(* C29                                                                     *)
(***************************************************************************)
\* the paths of the batch are pairwise distinct and none is a prefix of another
unrelated_paths(batch) ==
    \A i, j \in 1..Len(batch) :
        i # j => ~is_prefix(batch[i].field, batch[j].field)

\* C29: the compiled mutation map, timestamp aside, does not depend on the
\* order of the edits: for every snapshot and every batch whose paths are
\* pairwise distinct and none a prefix of another, every permutation of the
\* batch compiles to the same map.
C29_OrderIndependent ==
    (batch_compiled /\ Len(call.items) = 2 /\ unrelated_paths(call.items)) =>
        compiled_batch(<<call.items[2], call.items[1]>>, call.entry, 1) = ret[1]

(***************************************************************************)
(* C28                                                                     *)
(***************************************************************************)
\* C28: after legacy expansion two edits of the output share a path only if
\* two edits of the input shared that path: the expander never emits two
\* derived edits for the same canonical path contacts[i].<field>, also when
\* the batch carries legacy edits of different kinds for the same index.
C28_NoDuplicateDerivedPath ==
    expansion_returned =>
        \A k, l \in 1..Len(ret[1]) :
            (k < l /\ ret[1][k].field = ret[1][l].field) =>
                \E i, j \in 1..Len(call.items) :
                    /\ i < j
                    /\ call.items[i].field = ret[1][k].field
                    /\ call.items[j].field = ret[1][k].field

(***************************************************************************)
(* C27                                                                     *)
(***************************************************************************)
\* C27: project normalization is idempotent: normalizing the normalized
\* entry again gives the same entry; a project in canonical shape keeps its
\* caseStudy overview, goal, role title, screenshots and outcomes.
C27_ProjectNormalizationIdempotent ==
    normalized_project =>
        /\ normalize_project_entry(ret[1].d) = ret[1]
        /\ call.entry = CanonicalProject =>
               ret[1].d["caseStudy"] = CanonicalProject.d["caseStudy"]

(***************************************************************************)
(* C26                                                                     *)
(***************************************************************************)
\* both add_portfolio calls have returned or raised
both_added == pc \notin {"add_get", "add_create"} /\ other.pc = "done"

\* the calls that failed with the 409 of line 35
refused ==
    {c \in {"request", "other"} :
        \/ c = "request" /\ pc = "done" /\ response = 409
        \/ c = "other" /\ other.response = 409}

\* C26: under every interleaving of concurrent add_portfolio calls for one
\* user, the two calls of two requests that both found no portfolio included,
\* at most one document exists for the user afterwards, and every call but
\* one fails with the 409 error.
C26_OneDocumentPerUser ==
    both_added =>
        /\ documents <= 1
        /\ Cardinality(refused) = 1

(***************************************************************************)
(* C30                                                                     *)
(***************************************************************************)
\* the store writes the retrieval has issued
retrieval_writes == calls_of("update_portfolio_fields")

\* C30: retrieval leaves the store unchanged whenever the stored document
\* validates against the output schema or does not exist; it issues a store
\* write, the normalization write-back, only when the validation of the
\* stored document fails, and then at most one.
C30_RetrievalWritesOnlyToRepair ==
    /\ retrieval_writes <= 1
    /\ retrieval_writes = 0 => store = call.entry
    /\ (call.entry = None \/ validates(call.entry, PortfolioOut)) =>
           /\ retrieval_writes = 0
           /\ store = call.entry
    /\ retrieval_writes = 1 =>
           /\ call.entry # None
           /\ ~validates(call.entry, PortfolioOut)

\* the retrieval of the legacy document has repaired it with one write and
\* answered with the re-read document
C30_Witness ==
    /\ pc = "done"
    /\ response = 200
    /\ call.entry = LegacyDoc
    /\ store_ops = <<"get_portfolio_raw", "update_portfolio_fields", "get_portfolio_raw">>
    /\ store # LegacyDoc
    /\ validates(store, PortfolioOut)

====
